---- MODULE Spec2Model ----
(***************************************************************************)
(* CloudDriveClient: the WebDAV reverse proxy (serverless handler) and the *)
(* FileService drive configuration store, as state machines.               *)
(*                                                                         *)
(* Text is modelled as a sequence of tokens (each token a TLA+ string), so *)
(* that joining, concatenation and JSON serialisation are computed and not *)
(* assumed.  A header name is its lower-case spelling plus the set of      *)
(* positions written in upper case, so that toLowerCase is a real map.     *)
(***************************************************************************)
EXTENDS Integers, Sequences, FiniteSets, TLC

VARIABLES req, pc, res, fetches, upstreamResponse, error, outcome,
          storage, calls,
          isNativePlatform, invocation, backendCalls,
          currentPath, activeDrive, drives, files, selectedPaths, clipboard,
          uploading, previewFile, isAddDriveOpen, isIslandExpanded,
          localStorage, timers, isLongPress, pending, backend, dialog, started,
          lastDrop, modal, keydown

proxyVars == <<req, pc, res, fetches, upstreamResponse, error, outcome>>
driveVars == <<storage, calls>>
serviceVars == <<invocation, backendCalls>>
appVars == <<currentPath, activeDrive, drives, files, selectedPaths, clipboard,
             uploading, previewFile, isAddDriveOpen, isIslandExpanded,
             localStorage, timers, isLongPress, pending, backend, dialog, started,
          lastDrop, modal, keydown>>
vars == <<req, pc, res, fetches, upstreamResponse, error, outcome,
          storage, calls,
          isNativePlatform, invocation, backendCalls,
          currentPath, activeDrive, drives, files, selectedPaths, clipboard,
          uploading, previewFile, isAddDriveOpen, isIslandExpanded,
          localStorage, timers, isLongPress, pending, backend, dialog, started,
          lastDrop, modal, keydown>>

\* What each specification leaves alone.
notProxy == <<driveVars, serviceVars, appVars, isNativePlatform>>
notDrive == <<proxyVars, serviceVars, appVars, isNativePlatform>>
notApp == <<proxyVars, calls, serviceVars, isNativePlatform, started, lastDrop, modal>>
notStart == <<proxyVars, calls, serviceVars, isNativePlatform, lastDrop, modal>>

\* The parts of the state a specification does not use: nothing called, no
\* request received, no page loaded.
serviceIdle ==
    /\ invocation = [op |-> "none"]
    /\ backendCalls = <<>>
appIdle ==
    /\ currentPath = <<"/">>
    /\ activeDrive = "local"
    /\ drives = <<>>
    /\ files = {}
    /\ selectedPaths = {}
    /\ clipboard = [t |-> "null"]
    /\ uploading = FALSE
    /\ previewFile = [t |-> "null"]
    /\ isAddDriveOpen = FALSE
    /\ isIslandExpanded = FALSE
    /\ localStorage = [last_path |-> [t |-> "null"], last_drive |-> [t |-> "null"]]
    /\ timers = {}
    /\ isLongPress = {}
    /\ pending = {}
    /\ backend = {}
    /\ dialog = [kind |-> "none"]
    /\ started = 0
    /\ lastDrop = [items |-> <<>>, destination |-> <<>>]
    /\ keydown = [key |-> "none", previewFile |-> FALSE, isAddDriveOpen |-> FALSE,
                  isIslandExpanded |-> FALSE, selectedPaths |-> FALSE]
    /\ modal = [mounted |-> FALSE, mount |-> 0, file |-> [t |-> "null"], drive |-> "local",
                activeDriveConfig |-> [t |-> "null"], fileUrl |-> [t |-> "null"],
                content |-> [t |-> "null"],
                cleanup |-> [registered |-> FALSE, fileUrl |-> [t |-> "null"]],
                getDrives |-> FALSE, loads |-> {}, created |-> {}, revoked |-> {}]

(***************************************************************************)
(* Bounds of the model.                                                    *)
(***************************************************************************)
MaxSegs == 2
MaxReqHeaders == 2
MaxRespHeaders == 2
MaxCalls == 3

(***************************************************************************)
(* Values: every JS value the handler touches is a record [t, v], t the    *)
(* JS kind and v a token sequence.                                         *)
(***************************************************************************)
Val(t, v) == [t |-> t, v |-> v]
undefined == Val("undefined", <<>>)

\* JS truthiness of a request body: undefined and '' are falsy; a Buffer and
\* an object are truthy whatever they hold.
truthy(b) == CASE b.t = "undefined" -> FALSE
               [] b.t = "string" -> b.v # <<>>
               [] OTHER -> TRUE

\* typeof x === 'object': true of a parsed object and of a Buffer alike.
typeofObject(b) == b.t \in {"object", "buffer"}

\* Array.prototype.join(sep) on a list of tokens.
RECURSIVE join(_, _)
join(arr, sep) ==
    IF arr = <<>> THEN <<>>
    ELSE IF Len(arr) = 1 THEN <<arr[1]>>
    ELSE <<arr[1], sep>> \o join(Tail(arr), sep)

\* JSON text of the members of an object, given as <<key, value tokens>> pairs.
RECURSIVE jsonMembers(_)
jsonMembers(ms) ==
    IF ms = <<>> THEN <<>>
    ELSE <<"\"", ms[1][1], "\"", ":">> \o ms[1][2]
         \o (IF Len(ms) = 1 THEN <<>> ELSE <<",">> \o jsonMembers(Tail(ms)))

jsonObject(ms) == <<"{">> \o jsonMembers(ms) \o <<"}">>
jsonString(s) == <<"\"", s, "\"">>
jsonArray(xs) == <<"[">> \o join(xs, ",") \o <<"]">>

\* The members of a parsed object body: its v lists key, value, key, value...
RECURSIVE members(_)
members(v) ==
    IF Len(v) < 2 THEN <<>>
    ELSE <<<<v[1], <<v[2]>>>>>> \o members(Tail(Tail(v)))

\* JSON.stringify: a parsed object gives its JSON text; a Buffer serialises
\* through Buffer.prototype.toJSON as {"type":"Buffer","data":[...]}.
JSONstringify(b) ==
    CASE b.t = "object" -> Val("string", jsonObject(members(b.v)))
      [] b.t = "buffer" ->
           Val("string", jsonObject(<< <<"type", jsonString("Buffer")>>,
                                       <<"data", jsonArray(b.v)>> >>))
      [] OTHER -> b

(***************************************************************************)
(* Header names and header maps.                                           *)
(***************************************************************************)
H(l, c) == [lower |-> l, caps |-> c]
toLowerCase(k) == [k EXCEPT !.caps = {}]

requestFilter == {H("host", {}), H("origin", {}), H("referer", {}),
                  H("cookie", {}), H("connection", {}), H("accept-encoding", {})}
responseFilter == {H("content-encoding", {}), H("content-length", {}),
                   H("access-control-allow-origin", {})}

userAgentKey == H("user-agent", {})
userAgentValue == "WebDAVFS/1.0.0 (0.0.0) CloudMgr/1.0.0"

baseUrl == "https://dav.jianguoyun.com/dav/"

corsOrigin == "*"
corsMethods == "GET, POST, PUT, DELETE, OPTIONS, PROPFIND, MKCOL, MOVE, COPY, LOCK, UNLOCK"
corsHeaders == "Authorization, Content-Type, Depth, If-Match, If-Modified-Since, If-None-Match, If-Unmodified-Since, Destination, Overwrite, User-Agent, X-Requested-With"

(***************************************************************************)
(* The response object (http.ServerResponse with Vercel's helpers).        *)
(* headers is keyed by the lower-case name: setHeader replaces a header of *)
(* the same name whatever its letter case.  The headers the helpers add on *)
(* their own (Content-Type, Content-Length) are not recorded: res.headers  *)
(* holds what the handler sets.                                            *)
(***************************************************************************)
noBody == Val("none", <<>>)
freshResponse == [statusCode |-> 200, headers |-> <<>>, body |-> noBody, finished |-> 0]

setHeader(r, name, value) ==
    [r EXCEPT !.headers = (name.lower :> [name |-> name, value |-> value]) @@ @]
status(r, code) == [r EXCEPT !.statusCode = code]
end(r) == [r EXCEPT !.finished = @ + 1]
send(r, body) == [r EXCEPT !.body = body, !.finished = @ + 1]
json(r, ms) == send(r, Val("json", jsonObject(ms)))

(***************************************************************************)
(* handler(req, res), src/unnamed/part_000                                 *)
(***************************************************************************)
\* pathStr with the separator left to join's default (',').
pathStrDefaultSeparator(r) ==
    LET path == IF r.path = undefined THEN Val("array", <<>>) ELSE r.path
    IN  IF path.t = "array" THEN join(path.v, ",") ELSE path.v

\* const { path = [] } = req.query; Array.isArray(path) ? path.join('/') : path
pathStr(r) ==
    LET path == IF r.path = undefined THEN Val("array", <<>>) ELSE r.path
    IN  IF path.t = "array" THEN join(path.v, "/") ELSE path.v

targetUrl(r) == <<baseUrl>> \o pathStr(r)

\* The three CORS headers set before anything else.
setCors(r) ==
    setHeader(setHeader(setHeader(r,
        H("access-control-allow-origin", {1, 8, 16, 22}), corsOrigin),
        H("access-control-allow-methods", {1, 8, 16, 22}), corsMethods),
        H("access-control-allow-headers", {1, 8, 16, 22}), corsHeaders)

\* The filtered request headers, with the user-agent key forced.
headers(r) ==
    LET kept == {k \in DOMAIN r.headers : toLowerCase(k) \notin requestFilter}
    IN  [k \in kept \cup {userAgentKey} |->
            IF k = userAgentKey THEN userAgentValue ELSE r.headers[k]]

\* fetchOptions, with body left undefined when the code sets none.
fetchBody(r) ==
    IF r.method # "GET" /\ r.method # "HEAD" /\ truthy(r.body)
    THEN IF typeofObject(r.body) THEN JSONstringify(r.body) ELSE r.body
    ELSE undefined

fetchOptions(r) ==
    [method |-> r.method, headers |-> headers(r), redirect |-> "follow",
     body |-> fetchBody(r)]

\* upstreamResponse.headers.forEach(...): copy all but the filtered names.
RECURSIVE copyHeaders(_, _, _)
copyHeaders(r, hs, todo) ==
    IF todo = {} THEN r
    ELSE LET key == CHOOSE k \in todo : TRUE
             r1 == IF toLowerCase(key) \notin responseFilter
                   THEN setHeader(r, key, hs[key]) ELSE r
         IN  copyHeaders(r1, hs, todo \ {key})

\* The header copy with the content-length test dropped from the filter.
RECURSIVE copyHeadersKeepLength(_, _, _)
copyHeadersKeepLength(r, hs, todo) ==
    IF todo = {} THEN r
    ELSE LET key == CHOOSE k \in todo : TRUE
             r1 == IF toLowerCase(key) \notin (responseFilter \ {H("content-length", {})})
                   THEN setHeader(r, key, hs[key]) ELSE r
         IN  copyHeadersKeepLength(r1, hs, todo \ {key})

forwardHeadersKeepLength(r, hs) == copyHeadersKeepLength(r, hs, DOMAIN hs)

forwardHeaders(r, hs) == copyHeaders(r, hs, DOMAIN hs)

\* The status forwarded only when the upstream answer is a success.
forwardStatusOkOnly(r, up) == IF up.status < 400 THEN status(r, up.status) ELSE r

\* res.status(upstreamResponse.status), then the header copy.
forwardStatus(r, up) == status(r, up.status)

\* The catch block without res.status(500).
catchBlockNoStatus(r, message) ==
    [res |-> json(r, << <<"error", jsonString(message)>> >>),
     outcome |-> "returned"]

\* The catch block: res.status(500).json({ error: error.message }).
catchBlock(r, message) ==
    [res |-> json(status(r, 500), << <<"error", jsonString(message)>> >>),
     outcome |-> "returned"]

\* The preflight answered 204 No Content.
preflightNoContent(r) == end(status(r, 204))

\* The preflight branch: res.status(200).end().
preflight(r) == end(status(r, 200))

(***************************************************************************)
(* Inputs of the proxy.                                                    *)
(***************************************************************************)
Methods == {"OPTIONS", "GET", "HEAD", "PUT", "PROPFIND"}
Segs == {"docs", "note.txt"}
Arrays == UNION {[1..n -> Segs] : n \in 0..MaxSegs}
Paths == {undefined, Val("string", <<"docs">>)} \cup {Val("array", a) : a \in Arrays}

\* Inbound header names, in lower case and in mixed case (the filter lower-cases
\* each key before comparing it).
ReqHeaderNames == {H("host", {}), H("host", {1}), H("cookie", {1}),
                   H("accept-encoding", {1, 8}),
                   H("user-agent", {}), H("user-agent", {1, 6}),
                   H("depth", {}), H("authorization", {1})}
ReqHeaderValues == {"v1", "v2"}
ReqHeaderMaps ==
    UNION {[S -> ReqHeaderValues] :
             S \in {T \in SUBSET ReqHeaderNames : Cardinality(T) <= MaxReqHeaders}}

Bodies == {undefined, Val("string", <<>>), Val("string", <<"hello">>),
           Val("buffer", <<>>), Val("buffer", <<"104", "105">>),
           Val("object", <<"a", "1">>)}

Request(m, p, h, b) == [method |-> m, path |-> p, headers |-> h, body |-> b]
defaultPath == Val("array", <<"docs", "note.txt">>)
defaultHeaders == (H("host", {}) :> "v1") @@ (H("depth", {}) :> "v2")

\* The requests explored: every method with every path, with every body, and
\* every header map on a preflight and on a forwarded request.
Requests ==
    {Request(m, p, defaultHeaders, undefined) : m \in Methods, p \in Paths}
    \cup {Request(m, defaultPath, defaultHeaders, b) : m \in Methods, b \in Bodies}
    \cup {Request(m, defaultPath, h, Val("string", <<"hello">>)) :
            m \in {"OPTIONS", "PROPFIND"}, h \in ReqHeaderMaps}

\* Upstream responses: header names as the fetch Headers object yields them
\* (lower case).
Statuses == {201, 304, 404, 500}
RespHeaderNames == {H("content-encoding", {}), H("content-length", {}),
                    H("access-control-allow-origin", {}),
                    H("access-control-allow-methods", {}), H("etag", {})}
RespHeaderValues == {"u1", "u2"}
RespHeaderMaps ==
    UNION {[S -> RespHeaderValues] :
             S \in {T \in SUBSET RespHeaderNames : Cardinality(T) <= MaxRespHeaders}}
RespBodies == {<<>>, <<"60", "63">>}
Upstream(s, h, b) == [status |-> s, headers |-> h, body |-> b]
defaultRespHeaders == (H("etag", {}) :> "u1") @@ (H("content-length", {}) :> "u2")
UpstreamResponses ==
    {Upstream(s, defaultRespHeaders, b) : s \in Statuses, b \in RespBodies}
    \cup {Upstream(201, h, <<"60", "63">>) : h \in RespHeaderMaps}
noUpstream == Upstream(0, <<>>, <<>>)
Messages == {"fetch failed", "terminated"}

(***************************************************************************)
(* The handler as a state machine: entry to the first await, then the two  *)
(* awaits (fetch, arrayBuffer), each of which resolves or rejects.         *)
(***************************************************************************)
\* No request received.
proxyIdle ==
    /\ req = Request("OPTIONS", undefined, <<>>, undefined)
    /\ pc = "idle"
    /\ res = freshResponse
    /\ fetches = <<>>
    /\ upstreamResponse = noUpstream
    /\ error = "none"
    /\ outcome = "pending"

ProxyInit ==
    /\ req \in Requests
    /\ pc = "start"
    /\ res = freshResponse
    /\ fetches = <<>>
    /\ upstreamResponse = noUpstream
    /\ error = "none"
    /\ outcome = "pending"
    /\ storage = <<>>
    /\ calls = <<>>
    /\ isNativePlatform = FALSE
    /\ serviceIdle
    /\ appIdle

\* Lines 5-19 for an OPTIONS request.
handlerPreflight ==
    /\ pc = "start"
    /\ req.method = "OPTIONS"
    /\ res' = preflight(setCors(res))
    /\ pc' = "done"
    /\ outcome' = "returned"
    /\ UNCHANGED <<req, fetches, upstreamResponse, error>>
    /\ UNCHANGED notProxy

\* Lines 5-49 for any other method: up to the await of fetch.
handlerFetch ==
    /\ pc = "start"
    /\ req.method # "OPTIONS"
    /\ res' = setCors(res)
    /\ fetches' = Append(fetches, [url |-> targetUrl(req), options |-> fetchOptions(req)])
    /\ pc' = "awaitFetch"
    /\ UNCHANGED <<req, upstreamResponse, error, outcome>>
    /\ UNCHANGED notProxy

\* Lines 49-62: fetch resolved; status and headers forwarded, body read begun.
fetchResolved ==
    /\ pc = "awaitFetch"
    /\ \E up \in UpstreamResponses :
          /\ upstreamResponse' = up
          /\ res' = forwardHeaders(forwardStatus(res, up), up.headers)
    /\ pc' = "awaitBody"
    /\ UNCHANGED <<req, fetches, error, outcome>>
    /\ UNCHANGED notProxy

\* Lines 49, 65-68: fetch rejected.
fetchRejected ==
    /\ pc = "awaitFetch"
    /\ \E m \in Messages :
          /\ error' = m
          /\ res' = catchBlock(res, m).res
          /\ outcome' = catchBlock(res, m).outcome
    /\ pc' = "done"
    /\ UNCHANGED <<req, fetches, upstreamResponse>>
    /\ UNCHANGED notProxy

\* Lines 62-63: the body was read and is sent.
bodyResolved ==
    /\ pc = "awaitBody"
    /\ res' = send(res, Val("buffer", upstreamResponse.body))
    /\ pc' = "done"
    /\ outcome' = "returned"
    /\ UNCHANGED <<req, fetches, upstreamResponse, error>>
    /\ UNCHANGED notProxy

\* Lines 62, 65-68: reading the body rejected.
bodyRejected ==
    /\ pc = "awaitBody"
    /\ \E m \in Messages :
          /\ error' = m
          /\ res' = catchBlock(res, m).res
          /\ outcome' = catchBlock(res, m).outcome
    /\ pc' = "done"
    /\ UNCHANGED <<req, fetches, upstreamResponse>>
    /\ UNCHANGED notProxy

ProxyNext ==
    \/ handlerPreflight
    \/ handlerFetch
    \/ fetchResolved
    \/ fetchRejected
    \/ bodyResolved
    \/ bodyRejected

(***************************************************************************)
(* Properties of the proxy, checked under ProxySpec.                       *)
(***************************************************************************)
\* The path segments of the request: the array's elements, none when the path
\* is missing, the string itself when the path is a single string.
segments == req.path.v

\* The headers of the response as setCors alone leaves them.
corsOnly ==
    [k \in {"access-control-allow-origin", "access-control-allow-methods",
            "access-control-allow-headers"} |->
        [name |-> H(k, {1, 8, 16, 22}),
         value |-> CASE k = "access-control-allow-origin" -> corsOrigin
                     [] k = "access-control-allow-methods" -> corsMethods
                     [] OTHER -> corsHeaders]]

\* C1: once the handler is past its entry for a request whose method is not
\* OPTIONS, exactly one fetch was issued, to the base URL followed by the
\* path segments in their order with a '/' between each two (the bare base
\* URL when there is no segment).
C1_TargetUrl ==
    (pc # "start" /\ req.method # "OPTIONS") =>
        /\ Len(fetches) = 1
        /\ LET url == fetches[1].url
               n == Len(segments)
           IN  /\ url[1] = "https://dav.jianguoyun.com/dav/"
               /\ Len(url) = 1 + (IF n = 0 THEN 0 ELSE 2 * n - 1)
               /\ \A i \in 1..n : url[2 * i] = segments[i]
               /\ \A i \in 1..(n - 1) : url[2 * i + 1] = "/"

C1_Witness ==
    /\ pc = "awaitFetch"
    /\ req.method = "PROPFIND"
    /\ req.path = Val("array", <<"note.txt", "docs">>)
    /\ fetches[1].url = <<baseUrl, "note.txt", "/", "docs">>

\* C2: an OPTIONS request, whatever its path, headers and body, never causes
\* a fetch, and is answered in one step with status 200, no body and exactly
\* the three fixed CORS headers.
C2_Preflight ==
    req.method = "OPTIONS" =>
        /\ fetches = <<>>
        /\ pc \in {"start", "done"}
        /\ pc = "done" =>
             /\ res.statusCode = 200
             /\ res.body = noBody
             /\ res.finished = 1
             /\ res.headers = corsOnly

C2_Witness ==
    /\ pc = "done"
    /\ req.method = "OPTIONS"
    /\ req.body # undefined
    /\ \E k \in DOMAIN req.headers : k.lower = "cookie"
    /\ res.statusCode = 200

C4_RelayedHeaders ==
    upstreamResponse # noUpstream =>
        \A k \in DOMAIN upstreamResponse.headers :
            IF toLowerCase(k) \in responseFilter
            THEN /\ (k.lower \in DOMAIN res.headers) = (k.lower \in DOMAIN corsOnly)
                 /\ k.lower \in DOMAIN res.headers => res.headers[k.lower] = corsOnly[k.lower]
            ELSE /\ k.lower \in DOMAIN res.headers
                 /\ res.headers[k.lower] = [name |-> k, value |-> upstreamResponse.headers[k]]

C4_Witness ==
    /\ pc = "done"
    /\ error = "none"
    /\ H("content-length", {}) \in DOMAIN upstreamResponse.headers
    /\ H("etag", {}) \in DOMAIN upstreamResponse.headers
    /\ "content-length" \notin DOMAIN res.headers
    /\ res.headers["etag"].value = upstreamResponse.headers[H("etag", {})]

\* C5: every finished response carries Access-Control-Allow-Origin '*' and
\* the fixed Access-Control-Allow-Methods and Access-Control-Allow-Headers
\* values, whatever the upstream response held.
C5_CorsOnEveryResponse ==
    pc = "done" =>
        \A k \in DOMAIN corsOnly :
            k \in DOMAIN res.headers /\ res.headers[k].value = corsOnly[k].value

\* C6: when the fetch or the body read throws, the handler still returns
\* (the rejection does not escape it) and the response is finished once with
\* status 500 and the JSON body {"error": <the message>}.
C6_ErrorResponse ==
    /\ outcome # "rejected"
    /\ error # "none" =>
         /\ pc = "done"
         /\ outcome = "returned"
         /\ res.statusCode = 500
         /\ res.finished = 1
         /\ res.body = Val("json", <<"{", "\"", "error", "\"", ":", "\"", error, "\"", "}">>)

C6_Witness ==
    /\ error = "terminated"
    /\ upstreamResponse.status = 201
    /\ pc = "done"
    /\ res.statusCode = 500

\* The bytes a body stands for: a parsed object stands for its JSON text.
content(b) == IF b.t = "object" THEN JSONstringify(b).v ELSE b.v

\* C7: the fetch carries the inbound method, and for a request with a body
\* (methods other than GET and HEAD, which send none) the body sent upstream
\* has the content of the inbound body.
C7_MethodAndBody ==
    fetches # <<>> =>
        /\ fetches[1].options.method = req.method
        /\ (req.method \notin {"GET", "HEAD"} /\ req.body # undefined) =>
              content(fetches[1].options.body) = content(req.body)

\* C8: when fetch and body read succeeded, the response has the status and
\* the body bytes of the upstream response.
C8_StatusAndBody ==
    (pc = "done" /\ error = "none" /\ req.method # "OPTIONS") =>
        /\ res.statusCode = upstreamResponse.status
        /\ res.body = Val("buffer", upstreamResponse.body)
        /\ res.finished = 1

C8_Witness ==
    /\ pc = "done"
    /\ error = "none"
    /\ upstreamResponse.status = 404
    /\ res.statusCode = 404
    /\ res.body.v = <<"60", "63">>

\* C9: at most one fetch per request, the response finished exactly once,
\* and a response that ends 500 after a failure holds nothing of the upstream
\* response: status 500 and only the handler's own headers.
C9_OneFetchNoPartial ==
    /\ Len(fetches) <= 1
    /\ res.finished <= 1
    /\ pc = "done" => res.finished = 1
    /\ (pc = "done" /\ error # "none") =>
          /\ res.statusCode = 500
          /\ res.headers = corsOnly

ProxySpec == ProxyInit /\ [][ProxyNext]_vars

(***************************************************************************)
(* FileService drive configuration, src/unnamed/part_003 lines 45-88.      *)
(* storage is the value Preferences holds under 'cloud_mgr_drives': null   *)
(* until first written, then the JSON text of a list.  The text of a list  *)
(* of plain records is kept as the list it denotes, wrapped.               *)
(* Each call is asynchronous: Preferences.get and Preferences.set take     *)
(* effect as separate steps, and calls interleave between them.            *)
(***************************************************************************)
null == [t |-> "null"]
JSONtext(list) == [t |-> "string", json |-> list]
JSONparse(text) == text.json

defaultLocal == [id |-> "local", name |-> "Local Device", type |-> "local", path |-> "/"]

\* filter over a list, keeping order.
RECURSIVE filterId(_, _)
filterId(list, ids) ==
    IF list = <<>> THEN <<>>
    ELSE (IF list[1].id \in ids THEN <<>> ELSE <<list[1]>>) \o filterId(Tail(list), ids)

\* findIndex(d => d.id === driveId), 1-based; 0 when there is none.
findIndex(list, driveId) ==
    IF \E i \in 1..Len(list) : list[i].id = driveId
    THEN CHOOSE i \in 1..Len(list) :
            /\ list[i].id = driveId
            /\ \A j \in 1..(i - 1) : list[j].id # driveId
    ELSE 0

\* { ...drive, ...updates }
spread(drive, updates) == updates @@ drive

\* getDrives: [defaultLocal, ...savedDrives]
savedDrives(value) == IF value = null THEN <<>> ELSE JSONparse(value)
getDrives(value) == <<defaultLocal>> \o savedDrives(value)

\* The list each mutation writes, from the list it read.
addDriveList(driveList, driveConfig) == Append(filterId(driveList, {"local"}), driveConfig)
removeDriveList(driveList, driveId) == filterId(driveList, {driveId, "local"})
updateDriveList(driveList, driveId, updates) ==
    LET index == findIndex(driveList, driveId)
    IN  filterId([driveList EXCEPT ![index] = spread(driveList[index], updates)], {"local"})
updateDriveWrites(driveList, driveId) ==
    LET index == findIndex(driveList, driveId)
    IN  index # 0 /\ driveList[index].id # "local"

DriveIds == {"local", "d1", "d2"}
DriveConfigs == {[id |-> i, name |-> "Nut", type |-> "webdav"] : i \in DriveIds}
Updates == {[name |-> "Renamed"], [id |-> "local"]}
noConfig == [id |-> "none", name |-> "none", type |-> "none"]
noUpdates == [name |-> "none"]

Call(op, driveConfig, driveId, updates) ==
    [op |-> op, driveConfig |-> driveConfig, driveId |-> driveId, updates |-> updates,
     pc |-> "get", drives |-> <<>>, result |-> <<>>]

\* A mutation that would compute its list from the list persisted at the
\* time of its write.
newDrivesAtWrite(c) ==
    CASE c.op = "addDrive" -> addDriveList(getDrives(storage), c.driveConfig)
      [] c.op = "removeDrive" -> removeDriveList(getDrives(storage), c.driveId)
      [] OTHER -> updateDriveList(getDrives(storage), c.driveId, c.updates)

newDrives(c) ==
    CASE c.op = "addDrive" -> addDriveList(c.drives, c.driveConfig)
      [] c.op = "removeDrive" -> removeDriveList(c.drives, c.driveId)
      [] OTHER -> updateDriveList(c.drives, c.driveId, c.updates)

DriveInit ==
    /\ storage = null
    /\ calls = <<>>
    /\ req = Request("OPTIONS", undefined, <<>>, undefined)
    /\ pc = "idle"
    /\ res = freshResponse
    /\ fetches = <<>>
    /\ upstreamResponse = noUpstream
    /\ error = "none"
    /\ outcome = "pending"
    /\ isNativePlatform = FALSE
    /\ serviceIdle
    /\ appIdle

callGetDrives ==
    /\ Len(calls) < MaxCalls
    /\ calls' = Append(calls, Call("getDrives", noConfig, "none", noUpdates))
    /\ UNCHANGED storage
    /\ UNCHANGED notDrive

callAddDrive ==
    /\ Len(calls) < MaxCalls
    /\ \E driveConfig \in DriveConfigs :
          calls' = Append(calls, Call("addDrive", driveConfig, "none", noUpdates))
    /\ UNCHANGED storage
    /\ UNCHANGED notDrive

callRemoveDrive ==
    /\ Len(calls) < MaxCalls
    /\ \E driveId \in DriveIds :
          calls' = Append(calls, Call("removeDrive", noConfig, driveId, noUpdates))
    /\ UNCHANGED storage
    /\ UNCHANGED notDrive

callUpdateDrive ==
    /\ Len(calls) < MaxCalls
    /\ \E driveId \in DriveIds, updates \in Updates :
          calls' = Append(calls, Call("updateDrive", noConfig, driveId, updates))
    /\ UNCHANGED storage
    /\ UNCHANGED notDrive

\* Preferences.get takes effect for call i; the call runs on to its
\* Preferences.set, or returns when it writes nothing.
preferencesGet ==
    /\ \E i \in 1..Len(calls) :
          /\ calls[i].pc = "get"
          /\ LET driveList == getDrives(storage)
                 writes == CASE calls[i].op = "getDrives" -> FALSE
                             [] calls[i].op = "updateDrive" ->
                                   updateDriveWrites(driveList, calls[i].driveId)
                             [] OTHER -> TRUE
             IN  calls' = [calls EXCEPT ![i].drives = driveList,
                                        ![i].pc = IF writes THEN "set" ELSE "done",
                                        ![i].result =
                                            IF calls[i].op = "getDrives" THEN driveList ELSE <<>>]
    /\ UNCHANGED storage
    /\ UNCHANGED notDrive

\* Preferences.set takes effect for call i, which then returns.
preferencesSet ==
    /\ \E i \in 1..Len(calls) :
          /\ calls[i].pc = "set"
          /\ storage' = JSONtext(newDrives(calls[i]))
          /\ calls' = [calls EXCEPT ![i].pc = "done",
                                    ![i].result = IF calls[i].op = "addDrive"
                                                  THEN newDrives(calls[i]) ELSE <<>>]
    /\ UNCHANGED notDrive

DriveNext ==
    \/ callGetDrives
    \/ callAddDrive
    \/ callRemoveDrive
    \/ callUpdateDrive
    \/ preferencesGet
    \/ preferencesSet

DriveSpec == DriveInit /\ [][DriveNext]_vars

\* C10: the persisted list holds no drive with id 'local', and every list
\* getDrives returned is the local drive followed by drives none of which
\* has id 'local'.
C10_LocalOnlyOnce ==
    /\ \A i \in 1..Len(savedDrives(storage)) : savedDrives(storage)[i].id # "local"
    /\ \A c \in 1..Len(calls) :
          (calls[c].op = "getDrives" /\ calls[c].pc = "done") =>
              /\ calls[c].result[1] = defaultLocal
              /\ \A j \in 2..Len(calls[c].result) : calls[c].result[j].id # "local"

\* The list a mutation computes from the list it read, entry by entry.
listRead(c) ==
    LET first == IF \E j \in 1..Len(c.drives) : c.drives[j].id = c.driveId
                 THEN CHOOSE j \in 1..Len(c.drives) :
                          /\ c.drives[j].id = c.driveId
                          /\ \A k \in 1..(j - 1) : c.drives[k].id # c.driveId
                 ELSE 0
         updated == [j \in 1..Len(c.drives) |->
                        IF c.op = "updateDrive" /\ j = first
                        THEN [f \in DOMAIN c.drives[j] |->
                                 IF f \in DOMAIN c.updates THEN c.updates[f]
                                 ELSE c.drives[j][f]]
                        ELSE c.drives[j]]
         kept == SelectSeq(updated, LAMBDA d :
                     d.id # "local" /\ (c.op = "removeDrive" => d.id # c.driveId))
    IN  IF c.op = "addDrive" THEN kept \o <<c.driveConfig>> ELSE kept

\* C11: each drive-list mutation writes back the list it computed from its
\* own earlier read, whatever was persisted in between, and the persisted
\* list changes by these writes only: after overlapping mutations it is
\* exactly the list of the later write, and the earlier change can be lost.
C11_LastWriteWins ==
    [][/\ \A i \in 1..Len(calls) :
             (calls[i].pc = "set" /\ calls'[i].pc = "done") =>
                 storage' = JSONtext(listRead(calls[i]))
       /\ (storage' # storage) =>
             \E i \in 1..Len(calls) : calls[i].pc = "set" /\ calls'[i].pc = "done"]_vars

\* Two overlapping addDrive calls both read the empty list and both
\* returned; one drive only is persisted.
C11_Witness ==
    /\ Len(calls) = 2
    /\ \A i \in 1..2 : /\ calls[i].op = "addDrive"
                        /\ calls[i].pc = "done"
                        /\ calls[i].drives = <<defaultLocal>>
    /\ calls[1].driveConfig.id = "d1"
    /\ calls[2].driveConfig.id = "d2"
    /\ Len(savedDrives(storage)) = 1

(***************************************************************************)
(* The file browser (App) and the FileService file operations.             *)
(*                                                                         *)
(* A path is text: a sequence of tokens, each "/" or a name.  split, slice,*)
(* join, pop and the trailing-slash replace are computed on the tokens.    *)
(***************************************************************************)
root == <<"/">>

\* String.prototype.split('/'): the segments between the separators, ""
\* for an empty one.
RECURSIVE split(_)
split(str) ==
    IF str = <<>> THEN <<"">>
    ELSE IF str[1] = "/" THEN <<"">> \o split(Tail(str))
    ELSE IF Len(str) = 1 THEN <<str[1]>>
    ELSE <<str[1]>> \o split(Tail(Tail(str)))

\* slice(0, -1), pop() and filter(Boolean) on a list of segments.
sliceInit(list) == SubSeq(list, 1, Len(list) - 1)
pop(list) == list[Len(list)]
filterBoolean(list) == SelectSeq(list, LAMBDA s : s # "")

\* join('/') as text: empty segments contribute no character.
joinSlash(list) == SelectSeq(join(list, "/"), LAMBDA tok : tok # "")

\* x || '/'
orRoot(str) == IF str = <<>> THEN root ELSE str

\* currentPath.split('/').slice(0, -1).join('/') || '/'
parentOf(path) == orRoot(joinSlash(sliceInit(split(path))))

\* A join that would not treat the root apart.
childOfAlwaysJoined(parent, name) == parent \o <<"/", name>>

\* parent === '/' ? `/${name}` : `${parent}/${name}`
childOf(parent, name) == IF parent = root THEN <<"/", name>> ELSE parent \o <<"/", name>>

\* destination.replace(/\/+$/, '')
RECURSIVE stripTrailingSlashes(_)
stripTrailingSlashes(str) ==
    IF str # <<>> /\ str[Len(str)] = "/" THEN stripTrailingSlashes(sliceInit(str))
    ELSE str

\* '/' + arr.slice(0, index + 1).join('/') for a breadcrumb segment.
segmentPath(arr, index) == <<"/">> \o joinSlash(SubSeq(arr, 1, index))

\* item.split('/').pop()
baseName(item) == pop(split(item))

(***************************************************************************)
(* FileService file operations: the backend calls each operation issues,   *)
(* in the order of issue.  A call names its backend (the Capacitor         *)
(* Filesystem plugin or the WebDAV client), the function and its paths.    *)
(***************************************************************************)
noPath == <<>>
FilesystemCall(fn, path, to) == [backend |-> "Filesystem", fn |-> fn, path |-> path, to |-> to]
WebDAVCall(fn, path, to) == [backend |-> "webdav", fn |-> fn, path |-> path, to |-> to]

\* items.map(f) for a function f of one item.
map(items, f(_)) == [k \in 1..Len(items) |-> f(items[k])]

listFiles(path, drive, native) ==
    IF drive.type = "local"
    THEN IF native THEN <<FilesystemCall("readdir", path, noPath)>> ELSE <<>>
    ELSE IF drive.type = "webdav"
         THEN <<WebDAVCall("getDirectoryContents", path, noPath)>>
         ELSE <<>>

createDirectory(path, drive, native) ==
    IF drive.type = "local"
    THEN IF native THEN <<FilesystemCall("mkdir", path, noPath)>> ELSE <<>>
    ELSE <<WebDAVCall("createDirectory", path, noPath)>>

delete(items, drive, native) ==
    IF drive.type = "local"
    THEN IF native
         THEN map(items, LAMBDA path : FilesystemCall("deleteFile", path, noPath))
         ELSE <<>>
    ELSE map(items, LAMBDA itemPath : WebDAVCall("deleteFile", itemPath, noPath))

\* A rename that would call the native plugin on any platform.
renameAnyPlatform(oldPath, newName, drive, native) ==
    LET parent == parentOf(oldPath)
        newPath == childOf(parent, newName)
    IN  IF drive.type = "local"
        THEN <<FilesystemCall("rename", oldPath, newPath)>>
        ELSE <<WebDAVCall("moveFile", oldPath, newPath)>>

rename(oldPath, newName, drive, native) ==
    LET parent == parentOf(oldPath)
        newPath == childOf(parent, newName)
    IN  IF drive.type = "local"
        THEN IF native THEN <<FilesystemCall("rename", oldPath, newPath)>> ELSE <<>>
        ELSE <<WebDAVCall("moveFile", oldPath, newPath)>>

move(items, destination, drive, native) ==
    IF drive.type = "local"
    THEN IF native
         THEN map(items, LAMBDA item :
                  FilesystemCall("rename", item, childOf(destination, baseName(item))))
         ELSE <<>>
    ELSE map(items, LAMBDA item :
             WebDAVCall("moveFile", item,
                        stripTrailingSlashes(destination) \o <<"/", baseName(item)>>))

getFileUrl(path, drive, native) ==
    IF drive.type = "local"
    THEN IF native THEN <<FilesystemCall("getUri", path, noPath)>> ELSE <<>>
    ELSE <<>>

readFile(path, drive, native) ==
    IF drive.type = "local"
    THEN IF native THEN <<FilesystemCall("readFile", path, noPath)>> ELSE <<>>
    ELSE <<WebDAVCall("getFileContents", path, noPath)>>

uploadFile(path, drive, native) ==
    IF drive.type = "local"
    THEN IF native THEN <<FilesystemCall("writeFile", path, noPath)>> ELSE <<>>
    ELSE <<WebDAVCall("putFileContents", path, noPath)>>

(***************************************************************************)
(* FileService called directly: one operation per step, on a drive of      *)
(* either kind, on the native platform or in the browser.                  *)
(***************************************************************************)
localDrives == {defaultLocal}
webdavDrives == {[id |-> i, name |-> "Nut", type |-> "webdav"] : i \in {"d1", "d2"}}
Drives == localDrives \cup webdavDrives

dirD == <<"/", "d">>
fileA == <<"/", "a">>
fileB == <<"/", "b">>
fileC == <<"/", "c">>
fileDX == <<"/", "d", "/", "x">>
DirPaths == {root, dirD}
ItemPaths == {dirD, fileA, fileB, fileDX}
ItemLists == {<<p>> : p \in ItemPaths} \cup {<<fileA, fileB>>, <<fileB, fileA>>, <<fileA, fileDX>>}
NewNames == {"a", "b", "c"}

noInvocation == [op |-> "none"]
Invocation(op, drive, path, items, name) ==
    [op |-> op, drive |-> drive, path |-> path, items |-> items, name |-> name]

ServiceInit ==
    /\ isNativePlatform \in BOOLEAN
    /\ invocation = noInvocation
    /\ backendCalls = <<>>
    /\ storage = null
    /\ calls = <<>>
    /\ proxyIdle
    /\ appIdle

invokeListFiles ==
    /\ \E path \in DirPaths, drive \in Drives :
          /\ invocation' = Invocation("listFiles", drive, path, <<>>, "")
          /\ backendCalls' = listFiles(path, drive, isNativePlatform)
    /\ UNCHANGED <<isNativePlatform, proxyVars, driveVars, appVars>>

invokeCreateDirectory ==
    /\ \E path \in DirPaths, name \in NewNames, drive \in Drives :
          /\ invocation' = Invocation("createDirectory", drive, childOf(path, name), <<>>, "")
          /\ backendCalls' = createDirectory(childOf(path, name), drive, isNativePlatform)
    /\ UNCHANGED <<isNativePlatform, proxyVars, driveVars, appVars>>

invokeDelete ==
    /\ \E items \in ItemLists, drive \in Drives :
          /\ invocation' = Invocation("delete", drive, noPath, items, "")
          /\ backendCalls' = delete(items, drive, isNativePlatform)
    /\ UNCHANGED <<isNativePlatform, proxyVars, driveVars, appVars>>

invokeRename ==
    /\ \E oldPath \in ItemPaths, newName \in NewNames, drive \in Drives :
          /\ invocation' = Invocation("rename", drive, oldPath, <<>>, newName)
          /\ backendCalls' = rename(oldPath, newName, drive, isNativePlatform)
    /\ UNCHANGED <<isNativePlatform, proxyVars, driveVars, appVars>>

invokeMove ==
    /\ \E items \in ItemLists, destination \in DirPaths, drive \in Drives :
          /\ invocation' = Invocation("move", drive, destination, items, "")
          /\ backendCalls' = move(items, destination, drive, isNativePlatform)
    /\ UNCHANGED <<isNativePlatform, proxyVars, driveVars, appVars>>

invokeGetFileUrl ==
    /\ \E path \in ItemPaths, drive \in Drives :
          /\ invocation' = Invocation("getFileUrl", drive, path, <<>>, "")
          /\ backendCalls' = getFileUrl(path, drive, isNativePlatform)
    /\ UNCHANGED <<isNativePlatform, proxyVars, driveVars, appVars>>

invokeReadFile ==
    /\ \E path \in ItemPaths, drive \in Drives :
          /\ invocation' = Invocation("readFile", drive, path, <<>>, "")
          /\ backendCalls' = readFile(path, drive, isNativePlatform)
    /\ UNCHANGED <<isNativePlatform, proxyVars, driveVars, appVars>>

invokeUploadFile ==
    /\ \E path \in DirPaths, name \in NewNames, drive \in Drives :
          /\ invocation' = Invocation("uploadFile", drive, childOf(path, name), <<>>, "")
          /\ backendCalls' = uploadFile(childOf(path, name), drive, isNativePlatform)
    /\ UNCHANGED <<isNativePlatform, proxyVars, driveVars, appVars>>

ServiceNext ==
    \/ invokeListFiles
    \/ invokeCreateDirectory
    \/ invokeDelete
    \/ invokeRename
    \/ invokeMove
    \/ invokeGetFileUrl
    \/ invokeReadFile
    \/ invokeUploadFile

ServiceSpec == ServiceInit /\ [][ServiceNext]_vars

backendsCalled == {backendCalls[k].backend : k \in 1..Len(backendCalls)}

\* C18 as stated: a local drive sees no WebDAV call, a WebDAV drive no
\* native filesystem call, and exactly one of the two backends receives
\* each operation.
C18_ExactlyOneBackend ==
    invocation.op # "none" =>
        /\ invocation.drive.type = "local" => "webdav" \notin backendsCalled
        /\ invocation.drive.type = "webdav" => "Filesystem" \notin backendsCalled
        /\ Cardinality(backendsCalled) = 1

\* C18 amended: a local drive sees no WebDAV call and a WebDAV drive no
\* native filesystem call; the native filesystem receives the operation
\* exactly when the drive is local and the platform is native, the WebDAV
\* client exactly when the drive is a WebDAV drive and the operation is not
\* getFileUrl; a local drive in the browser, and getFileUrl on a WebDAV
\* drive, reach no backend.
C18_AtMostOneBackend ==
    invocation.op # "none" =>
        /\ invocation.drive.type = "local" =>
              backendsCalled = IF isNativePlatform THEN {"Filesystem"} ELSE {}
        /\ invocation.drive.type = "webdav" =>
              backendsCalled = IF invocation.op = "getFileUrl" THEN {} ELSE {"webdav"}

\* A rename on a local drive in the browser was invoked: no backend call.
C18_Witness ==
    /\ invocation.op = "rename"
    /\ invocation.drive.type = "local"
    /\ ~isNativePlatform
    /\ backendCalls = <<>>

(***************************************************************************)
(* The App component: React state, browser storage, the requests in flight *)
(* with the values their closures captured, and the long-press timers.     *)
(***************************************************************************)
MaxPending == 2
MaxTimers == 1

\* The initial drive list when nothing is cached (quota omitted).
localStorageDrive == [id |-> "local", name |-> "Local Storage", type |-> "local"]
webdavDrive == [id |-> "d1", name |-> "Nut", type |-> "webdav"]

\* What the backends hold: one node per file or directory.
Node(driveId, path, isDirectory, data) ==
    [drive |-> driveId, path |-> path, isDirectory |-> isDirectory, data |-> data]
BrowsedNodes ==
    {Node("d1", dirD, TRUE, "none"), Node("d1", fileA, FALSE, "old"),
     Node("d1", fileB, FALSE, "old")}
InitialNodes ==
    {Node("d1", dirD, TRUE, "none"), Node("d1", fileA, FALSE, "old")}

directoryExists(nodes, drive, path) ==
    \/ path = root
    \/ \E n \in nodes : n.drive = drive.id /\ n.path = path /\ n.isDirectory

\* normalizeWebDAVFile / normalizeLocalFile of the entries of a directory.
directoryContents(nodes, drive, path) ==
    {[name |-> baseName(n.path), path |-> n.path, isDirectory |-> n.isDirectory] :
        n \in {m \in nodes : m.drive = drive.id /\ parentOf(m.path) = path}}

\* The value listFiles resolves with.
listFilesResult(nodes, drive, path, native) ==
    IF listFiles(path, drive, native) = <<>> THEN {}
    ELSE directoryContents(nodes, drive, path)

pathsOf(list) == {f.path : f \in list}

\* localStorage.getItem(key) || fallback
\* A stored item is text; a key never set reads as null.
Item(value) == [t |-> "string", v |-> value]
getItemOr(item, fallback) == IF item = null THEN fallback ELSE item.v

\* drives.find(d => d.id === activeDrive) || drives[0]
activeDriveConfig(list, driveId) ==
    IF findIndex(list, driveId) # 0 THEN list[findIndex(list, driveId)] ELSE list[1]

\* fetchFiles(path) up to its await: the request it puts in flight.
fetchFiles(path, list, driveId, cause) ==
    IF Len(list) = 0 THEN {}
    ELSE {[kind |-> "fetchFiles", path |-> path,
           drive |-> activeDriveConfig(list, driveId), cause |-> cause]}

\* useEffect on [currentPath, activeDrive, drives]: runs fetchFiles after a
\* render in which one of them changed.
effect(path, driveId, list, drivesSet, cause) ==
    IF (path # currentPath \/ driveId # activeDrive \/ drivesSet) /\ Len(list) > 0
    THEN fetchFiles(path, list, driveId, cause)
    ELSE {}

fetchDrives == [kind |-> "fetchDrives", pc |-> "get", list |-> <<>>]

\* toggleSelection with the selection its closure holds.
toggleSelection(selection, path) ==
    IF path \in selection THEN selection \ {path} ELSE selection \cup {path}

noModal == previewFile = null /\ ~isAddDriveOpen

\* Array.from(set): the members in some order.
RECURSIVE ArrayFrom(_)
ArrayFrom(set) ==
    IF set = {} THEN <<>>
    ELSE LET x == CHOOSE y \in set : TRUE IN <<x>> \o ArrayFrom(set \ {x})

isSelectionMode == selectedPaths # {}
hasClipboard == clipboard # null /\ Len(clipboard.items) > 0

\* What a step shows the user: nothing, an alert, or a confirm dialog with
\* the answer given.
noDialog == [kind |-> "none"]

Alert(message) == [kind |-> "alert", message |-> message]
Confirm(message, answer) == [kind |-> "confirm", message |-> message, answer |-> answer]

\* keydown is the key press the last step handled, with the layers that were open
\* when it arrived; noKey when the last step was not a key press.
noKey == [key |-> "none", previewFile |-> FALSE, isAddDriveOpen |-> FALSE,
          isIslandExpanded |-> FALSE, selectedPaths |-> FALSE]
Escape == [key |-> "Escape", previewFile |-> previewFile # null,
           isAddDriveOpen |-> isAddDriveOpen, isIslandExpanded |-> isIslandExpanded,
           selectedPaths |-> selectedPaths # {}]

\* What the browser holds at page load: nothing on a first visit, or the
\* keys of an earlier session.
StoredSessions ==
    <<[session |-> [last_path |-> null, last_drive |-> null],
       cached_drives |-> <<localStorageDrive>>],
      [session |-> [last_path |-> Item(dirD), last_drive |-> Item("d1")],
       cached_drives |-> <<defaultLocal, webdavDrive>>]>>

AppInit ==
    /\ \E k \in 1..Len(StoredSessions) :
          /\ localStorage = StoredSessions[k].session
          /\ drives = StoredSessions[k].cached_drives
    /\ currentPath = getItemOr(localStorage.last_path, root)
    /\ activeDrive = getItemOr(localStorage.last_drive, "local")
    /\ files = {}
    /\ selectedPaths = {}
    /\ clipboard = null
    /\ uploading = FALSE
    /\ previewFile = null
    /\ isAddDriveOpen = FALSE
    /\ isIslandExpanded = FALSE
    /\ timers = {}
    /\ isLongPress = {}
    /\ pending = {fetchDrives}
                 \cup fetchFiles(getItemOr(localStorage.last_path, root), drives,
                                 getItemOr(localStorage.last_drive, "local"), "mount")
    /\ backend = InitialNodes
    /\ dialog = noDialog
    /\ started = 0
    /\ lastDrop = [items |-> <<>>, destination |-> <<>>]
    /\ keydown = [key |-> "none", previewFile |-> FALSE, isAddDriveOpen |-> FALSE,
                  isIslandExpanded |-> FALSE, selectedPaths |-> FALSE]
    /\ modal = [mounted |-> FALSE, mount |-> 0, file |-> [t |-> "null"], drive |-> "local",
                activeDriveConfig |-> [t |-> "null"], fileUrl |-> [t |-> "null"],
                content |-> [t |-> "null"],
                cleanup |-> [registered |-> FALSE, fileUrl |-> [t |-> "null"]],
                getDrives |-> FALSE, loads |-> {}, created |-> {}, revoked |-> {}]
    /\ isNativePlatform = FALSE
    /\ storage = JSONtext(<<webdavDrive>>)
    /\ calls = <<>>
    /\ proxyIdle
    /\ serviceIdle

\* handleNavigate(path), and the effect of the render that follows.
handleNavigate(path) ==
    /\ currentPath' = path
    /\ localStorage' = [localStorage EXCEPT !.last_path = Item(path)]
    /\ pending' = pending \cup effect(path, activeDrive, drives, FALSE, "navigation")
    /\ Cardinality(pending') <= MaxPending

\* FileItem onClick.
onClick ==
    /\ noModal
    /\ \E file \in files :
          IF file.path \in isLongPress
          THEN UNCHANGED <<currentPath, localStorage, pending, selectedPaths, previewFile>>
          ELSE IF selectedPaths # {}
          THEN /\ selectedPaths' = toggleSelection(selectedPaths, file.path)
               /\ UNCHANGED <<currentPath, localStorage, pending, previewFile>>
          ELSE IF file.isDirectory
          THEN /\ handleNavigate(file.path)
               /\ UNCHANGED <<selectedPaths, previewFile>>
          ELSE /\ previewFile' = file
               /\ UNCHANGED <<currentPath, localStorage, pending, selectedPaths>>
    /\ keydown' = noKey
    /\ UNCHANGED <<activeDrive, drives, files, clipboard, uploading, isAddDriveOpen,
                   isIslandExpanded, timers, isLongPress, backend, storage, notApp>>
    /\ dialog' = noDialog

\* The selection checkbox of a FileItem.
onClickCheckbox ==
    /\ noModal
    /\ \E file \in files : selectedPaths' = toggleSelection(selectedPaths, file.path)
    /\ keydown' = noKey
    /\ UNCHANGED <<currentPath, activeDrive, drives, files, clipboard, uploading,
                   previewFile, isAddDriveOpen, isIslandExpanded, localStorage, timers,
                   isLongPress, pending, backend, storage, notApp>>
    /\ dialog' = noDialog

\* onPointerDown: arms the 300 ms timer, whose callback holds this render's
\* toggleSelection.
startPress ==
    /\ noModal
    /\ Cardinality(timers) < MaxTimers
    /\ \E file \in files :
          /\ \A t \in timers : t.path # file.path
          /\ isLongPress' = isLongPress \ {file.path}
          /\ timers' = timers \cup {[path |-> file.path, selectedPaths |-> selectedPaths]}
    /\ keydown' = noKey
    /\ UNCHANGED <<currentPath, activeDrive, drives, files, selectedPaths, clipboard,
                   uploading, previewFile, isAddDriveOpen, isIslandExpanded, localStorage,
                   pending, backend, storage, notApp>>
    /\ dialog' = noDialog

\* onPointerUp / onPointerLeave of a mounted FileItem: clears its timer.
endPress ==
    /\ \E t \in timers :
          /\ t.path \in pathsOf(files)
          /\ timers' = timers \ {t}
    /\ keydown' = noKey
    /\ UNCHANGED <<currentPath, activeDrive, drives, files, selectedPaths, clipboard,
                   uploading, previewFile, isAddDriveOpen, isIslandExpanded, localStorage,
                   isLongPress, pending, backend, storage, notApp>>
    /\ dialog' = noDialog

\* The timer callback: toggleSelection(fullPath); setIsLongPress(true).
timerFires ==
    /\ \E t \in timers :
          /\ selectedPaths' = toggleSelection(t.selectedPaths, t.path)
          /\ isLongPress' = IF t.path \in pathsOf(files) THEN isLongPress \cup {t.path}
                            ELSE isLongPress
          /\ timers' = timers \ {t}
    /\ keydown' = noKey
    /\ UNCHANGED <<currentPath, activeDrive, drives, files, clipboard, uploading,
                   previewFile, isAddDriveOpen, isIslandExpanded, localStorage, pending,
                   backend, storage, notApp>>
    /\ dialog' = noDialog

\* The Home button and the breadcrumb segments other than the last.
onClickBreadcrumb ==
    /\ noModal
    /\ LET arr == filterBoolean(split(currentPath))
       IN  \E path \in {root} \cup {segmentPath(arr, index) : index \in 1..(Len(arr) - 1)} :
              handleNavigate(path)
    /\ keydown' = noKey
    /\ UNCHANGED <<activeDrive, drives, files, selectedPaths, clipboard, uploading,
                   previewFile, isAddDriveOpen, isIslandExpanded, timers, isLongPress,
                   backend, storage, notApp>>
    /\ dialog' = noDialog

\* A go-up that would not record the new path.
handleGoUpNotStored ==
    /\ noModal
    /\ currentPath # root
    /\ LET parent == parentOf(currentPath)
       IN  /\ currentPath' = parent
           /\ pending' = pending \cup effect(parent, activeDrive, drives, FALSE, "navigation")
    /\ Cardinality(pending') <= MaxPending
    /\ keydown' = noKey
    /\ UNCHANGED <<activeDrive, drives, files, selectedPaths, clipboard, uploading,
                   previewFile, isAddDriveOpen, isIslandExpanded, timers, isLongPress,
                   backend, storage, notApp, localStorage>>
    /\ dialog' = noDialog

handleGoUp ==
    /\ noModal
    /\ currentPath # root
    /\ LET parent == parentOf(currentPath)
       IN  /\ currentPath' = parent
           /\ localStorage' = [localStorage EXCEPT !.last_path = Item(parent)]
           /\ pending' = pending \cup effect(parent, activeDrive, drives, FALSE, "navigation")
    /\ Cardinality(pending') <= MaxPending
    /\ keydown' = noKey
    /\ UNCHANGED <<activeDrive, drives, files, selectedPaths, clipboard, uploading,
                   previewFile, isAddDriveOpen, isIslandExpanded, timers, isLongPress,
                   backend, storage, notApp>>
    /\ dialog' = noDialog

\* A drive change that would also empty the clipboard.
handleDriveChangeClearsClipboard ==
    /\ noModal
    /\ \E k \in 1..Len(drives) :
          LET id == drives[k].id
          IN  /\ activeDrive' = id
              /\ currentPath' = root
              /\ localStorage' = [last_path |-> Item(root), last_drive |-> Item(id)]
              /\ pending' = pending \cup effect(root, id, drives, FALSE, "navigation")
    /\ Cardinality(pending') <= MaxPending
    /\ clipboard' = null
    /\ keydown' = noKey
    /\ UNCHANGED <<drives, files, selectedPaths, uploading, previewFile,
                   isAddDriveOpen, isIslandExpanded, timers, isLongPress, backend,
                   storage, notApp>>
    /\ dialog' = noDialog

handleDriveChange ==
    /\ noModal
    /\ \E k \in 1..Len(drives) :
          LET id == drives[k].id
          IN  /\ activeDrive' = id
              /\ currentPath' = root
              /\ localStorage' = [last_path |-> Item(root), last_drive |-> Item(id)]
              /\ pending' = pending \cup effect(root, id, drives, FALSE, "navigation")
    /\ Cardinality(pending') <= MaxPending
    /\ keydown' = noKey
    /\ UNCHANGED <<drives, files, selectedPaths, clipboard, uploading, previewFile,
                   isAddDriveOpen, isIslandExpanded, timers, isLongPress, backend,
                   storage, notApp>>
    /\ dialog' = noDialog

\* removeDrive(id) up to its await; the continuation holds this render's
\* activeDrive.
removeDrive ==
    /\ noModal
    /\ \E k \in 1..Len(drives), answer \in BOOLEAN :
          /\ drives[k].id # "local"
          /\ dialog' = Confirm("confirmRemoveDrive", answer)
          /\ pending' = IF answer
                        THEN pending \cup {[kind |-> "removeDrive", id |-> drives[k].id,
                                            activeDrive |-> activeDrive, pc |-> "get",
                                            list |-> <<>>]}
                        ELSE pending
    /\ Cardinality(pending') <= MaxPending
    /\ keydown' = noKey
    /\ UNCHANGED <<currentPath, activeDrive, drives, files, selectedPaths, clipboard,
                   uploading, previewFile, isAddDriveOpen, isIslandExpanded, localStorage,
                   timers, isLongPress, backend, storage, notApp>>

\* Preferences.get of a getDrives in flight (for fetchDrives or removeDrive).
getDrivesRead ==
    /\ \E op \in pending :
          /\ op.kind \in {"fetchDrives", "removeDrive"}
          /\ op.pc = "get"
          /\ pending' = (pending \ {op})
                        \cup {[op EXCEPT !.pc = "got", !.list = getDrives(storage)]}
    /\ keydown' = noKey
    /\ UNCHANGED <<currentPath, activeDrive, drives, files, selectedPaths, clipboard,
                   uploading, previewFile, isAddDriveOpen, isIslandExpanded, localStorage,
                   timers, isLongPress, backend, storage, notApp>>
    /\ dialog' = noDialog

\* fetchDrives after its await: setDrives(list), and the effect.
fetchDrivesResolved ==
    /\ \E op \in pending :
          /\ op.kind = "fetchDrives"
          /\ op.pc = "got"
          /\ drives' = op.list
          /\ pending' = (pending \ {op})
                        \cup effect(currentPath, activeDrive, op.list, TRUE, "drives")
    /\ keydown' = noKey
    /\ UNCHANGED <<currentPath, activeDrive, files, selectedPaths, clipboard, uploading,
                   previewFile, isAddDriveOpen, isIslandExpanded, localStorage, timers,
                   isLongPress, backend, storage, notApp>>
    /\ dialog' = noDialog

\* removeDrive after its await: Preferences.set of FileService.removeDrive,
\* then the reset when the closure's active drive is the removed one, then
\* fetchDrives().
removeDriveResolved ==
    /\ \E op \in pending :
          /\ op.kind = "removeDrive"
          /\ op.pc = "got"
          /\ storage' = JSONtext(removeDriveList(op.list, op.id))
          /\ IF op.activeDrive = op.id
             THEN /\ activeDrive' = "local"
                  /\ currentPath' = root
                  /\ localStorage' = [last_path |-> Item(root), last_drive |-> Item("local")]
                  /\ pending' = (pending \ {op}) \cup {fetchDrives}
                                \cup effect(root, "local", drives, FALSE, "navigation")
             ELSE /\ pending' = (pending \ {op}) \cup {fetchDrives}
                  /\ UNCHANGED <<activeDrive, currentPath, localStorage>>
    /\ keydown' = noKey
    /\ UNCHANGED <<drives, files, selectedPaths, clipboard, uploading, previewFile,
                   isAddDriveOpen, isIslandExpanded, timers, isLongPress, backend, notApp>>
    /\ dialog' = noDialog

\* fetchFiles after its await, listFiles resolved.
fetchFilesResolved ==
    /\ \E op \in pending :
          /\ op.kind = "fetchFiles"
          /\ op.drive.type = "webdav" => directoryExists(backend, op.drive, op.path)
          /\ LET filesList == listFilesResult(backend, op.drive, op.path, isNativePlatform)
             IN  /\ files' = filesList
                 /\ selectedPaths' = {}
                 /\ isLongPress' = isLongPress \cap pathsOf(filesList)
          /\ pending' = pending \ {op}
    /\ keydown' = noKey
    /\ UNCHANGED <<currentPath, activeDrive, drives, clipboard, uploading, previewFile,
                   isAddDriveOpen, isIslandExpanded, localStorage, timers, backend,
                   storage, notApp>>
    /\ dialog' = noDialog

\* fetchFiles after its await, listFiles rejected: the alert only.
fetchFilesRejected ==
    /\ \E op \in pending :
          /\ op.kind = "fetchFiles"
          /\ op.drive.type = "webdav"
          /\ pending' = pending \ {op}
    /\ keydown' = noKey
    /\ UNCHANGED <<currentPath, activeDrive, drives, files, selectedPaths, clipboard,
                   uploading, previewFile, isAddDriveOpen, isIslandExpanded, localStorage,
                   timers, isLongPress, backend, storage, notApp>>
    /\ dialog' = Alert("Error")

\* The refresh button.
onClickRefresh ==
    /\ noModal
    /\ selectedPaths = {}
    /\ ~hasClipboard
    /\ ~isIslandExpanded
    /\ pending' = pending \cup fetchFiles(currentPath, drives, activeDrive, "refresh")
    /\ Cardinality(pending') <= MaxPending
    /\ pending' # pending
    /\ keydown' = noKey
    /\ UNCHANGED <<currentPath, activeDrive, drives, files, selectedPaths, clipboard,
                   uploading, previewFile, isAddDriveOpen, isIslandExpanded, localStorage,
                   timers, isLongPress, backend, storage, notApp>>
    /\ dialog' = noDialog

\* The Cancel button of selection mode.
cancelSelection ==
    /\ noModal
    /\ isSelectionMode
    /\ selectedPaths' = {}
    /\ keydown' = noKey
    /\ UNCHANGED <<currentPath, activeDrive, drives, files, clipboard, uploading,
                   previewFile, isAddDriveOpen, isIslandExpanded, localStorage, timers,
                   isLongPress, pending, backend, storage, notApp>>
    /\ dialog' = noDialog

\* The Cancel-move button, shown with a clipboard outside selection mode.
cancelMove ==
    /\ noModal
    /\ ~isSelectionMode
    /\ hasClipboard
    /\ clipboard' = null
    /\ keydown' = noKey
    /\ UNCHANGED <<currentPath, activeDrive, drives, files, selectedPaths, uploading,
                   previewFile, isAddDriveOpen, isIslandExpanded, localStorage, timers,
                   isLongPress, pending, backend, storage, notApp>>
    /\ dialog' = noDialog

\* A cut that would leave the selection as it is.
handleCutKeepsSelection ==
    /\ noModal
    /\ isSelectionMode
    /\ clipboard' = [mode |-> "move", items |-> ArrayFrom(selectedPaths)]
    /\ selectedPaths' = selectedPaths
    /\ keydown' = noKey
    /\ UNCHANGED <<currentPath, activeDrive, drives, files, uploading, previewFile,
                   isAddDriveOpen, isIslandExpanded, localStorage, timers, isLongPress,
                   pending, backend, storage, notApp>>
    /\ dialog' = noDialog

\* handleCut, from the selection toolbar.
handleCut ==
    /\ noModal
    /\ isSelectionMode
    /\ clipboard' = [mode |-> "move", items |-> ArrayFrom(selectedPaths)]
    /\ selectedPaths' = {}
    /\ keydown' = noKey
    /\ UNCHANGED <<currentPath, activeDrive, drives, files, uploading, previewFile,
                   isAddDriveOpen, isIslandExpanded, localStorage, timers, isLongPress,
                   pending, backend, storage, notApp>>
    /\ dialog' = noDialog

\* The Escape handler with the island branch outside the else-if chain.
handleKeyDownAlsoIsland ==
    /\ IF previewFile # null
       THEN previewFile' = null /\ UNCHANGED <<isAddDriveOpen, selectedPaths>>
       ELSE IF isAddDriveOpen
       THEN isAddDriveOpen' = FALSE /\ UNCHANGED <<previewFile, selectedPaths>>
       ELSE IF ~isIslandExpanded /\ selectedPaths # {}
       THEN selectedPaths' = {} /\ UNCHANGED <<previewFile, isAddDriveOpen>>
       ELSE UNCHANGED <<previewFile, isAddDriveOpen, selectedPaths>>
    /\ isIslandExpanded' = FALSE
    /\ dialog' = noDialog
    /\ keydown' = Escape
    /\ UNCHANGED <<currentPath, activeDrive, drives, files, clipboard, uploading,
                   localStorage, timers, isLongPress, pending, backend, storage, notApp>>

\* The keydown handler for Escape.
handleKeyDown ==
    /\ IF previewFile # null
       THEN previewFile' = null /\ UNCHANGED <<isAddDriveOpen, isIslandExpanded, selectedPaths>>
       ELSE IF isAddDriveOpen
       THEN isAddDriveOpen' = FALSE /\ UNCHANGED <<previewFile, isIslandExpanded, selectedPaths>>
       ELSE IF isIslandExpanded
       THEN isIslandExpanded' = FALSE /\ UNCHANGED <<previewFile, isAddDriveOpen, selectedPaths>>
       ELSE IF selectedPaths # {}
       THEN selectedPaths' = {} /\ UNCHANGED <<previewFile, isAddDriveOpen, isIslandExpanded>>
       ELSE UNCHANGED <<previewFile, isAddDriveOpen, isIslandExpanded, selectedPaths>>
    /\ keydown' = Escape
    /\ UNCHANGED <<currentPath, activeDrive, drives, files, clipboard, uploading,
                   localStorage, timers, isLongPress, pending, backend, storage, notApp>>
    /\ dialog' = noDialog

AppNext ==
    \/ onClick
    \/ onClickCheckbox
    \/ startPress
    \/ endPress
    \/ timerFires
    \/ onClickBreadcrumb
    \/ handleGoUp
    \/ handleDriveChange
    \/ removeDrive
    \/ getDrivesRead
    \/ fetchDrivesResolved
    \/ removeDriveResolved
    \/ fetchFilesResolved
    \/ fetchFilesRejected
    \/ onClickRefresh
    \/ cancelSelection
    \/ cancelMove
    \/ handleCut
    \/ handleKeyDown

AppSpec == AppInit /\ [][AppNext]_vars

(***************************************************************************)
(* The handlers that write to a backend.  A handler in flight is a record  *)
(* with the values its closure holds (path, drive), the backend calls its  *)
(* FileService operations have issued so far, their results, and the       *)
(* index at which the calls of the Promise.all it awaits begin.            *)
(***************************************************************************)
MaxBatches == 1
MaxStarted == 1

isWithin(path, dir) ==
    /\ Len(path) > Len(dir)
    /\ SubSeq(path, 1, Len(dir)) = dir
    /\ (dir = root \/ path[Len(dir) + 1] = "/")
subtree(nodes, driveId, path) ==
    {n \in nodes : n.drive = driveId /\ (n.path = path \/ isWithin(n.path, path))}
exists(nodes, driveId, path) == path = root \/ subtree(nodes, driveId, path) # {}

\* Whether the backend can carry a call out, and what it holds afterwards.
canSucceed(nodes, driveId, call) ==
    CASE call.fn \in {"deleteFile"} -> exists(nodes, driveId, call.path)
      [] call.fn \in {"moveFile", "rename"} ->
            /\ exists(nodes, driveId, call.path)
            /\ ~isWithin(call.to, call.path)
            /\ exists(nodes, driveId, parentOf(call.to))
      [] call.fn \in {"createDirectory", "mkdir"} -> ~exists(nodes, driveId, call.path)
      [] OTHER -> exists(nodes, driveId, parentOf(call.path))

carriedOut(nodes, driveId, call) ==
    CASE call.fn \in {"deleteFile"} -> nodes \ subtree(nodes, driveId, call.path)
      [] call.fn \in {"moveFile", "rename"} ->
            IF call.to = call.path THEN nodes
            ELSE (nodes \ (subtree(nodes, driveId, call.path)
                           \cup subtree(nodes, driveId, call.to)))
                 \cup {[n EXCEPT !.path = call.to \o SubSeq(n.path, Len(call.path) + 1,
                                                            Len(n.path))] :
                          n \in subtree(nodes, driveId, call.path)}
      [] call.fn \in {"createDirectory", "mkdir"} ->
            nodes \cup {Node(driveId, call.path, TRUE, "none")}
      [] call.fn \in {"putFileContents", "writeFile"} ->
            (nodes \ subtree(nodes, driveId, call.path))
            \cup {Node(driveId, call.path, FALSE, "new")}
      [] OTHER -> nodes

RECURSIVE flatten(_)
flatten(lists) == IF lists = <<>> THEN <<>> ELSE Head(lists) \o flatten(Tail(lists))

includes(items, x) == \E k \in 1..Len(items) : items[k] = x
namesOf(list) == {f.name : f \in list}

\* acceptedFiles.filter(file => files.some(existing => existing.name === file.name))
duplicatesNever(acceptedFiles, list) == <<>>

duplicates(acceptedFiles, list) == SelectSeq(acceptedFiles, LAMBDA name : name \in namesOf(list))

isBatch(op) == op.kind \notin {"fetchFiles", "fetchDrives", "removeDrive"}
batches == {op \in pending : isBatch(op)}

\* A handler at its first await, holding this render's currentPath, drives
\* and activeDrive.
Batch(kind, items, destination, paste, phase, issued) ==
    [kind |-> kind, items |-> items, destination |-> destination, paste |-> paste,
     phase |-> phase, calls |-> issued, results |-> [k \in 1..Len(issued) |-> "pending"],
     group |-> 1, path |-> currentPath,
     drive |-> drives[findIndex(drives, activeDrive)],
     list |-> fetchFiles(currentPath, drives, activeDrive, "refresh")]

awaited(op) == op.group..Len(op.calls)
allOk(op) == \A k \in awaited(op) : op.results[k] = "ok"
allSettled(op) == \A k \in awaited(op) : op.results[k] # "pending"
someFailed(op) == \E k \in awaited(op) : op.results[k] = "failed"

\* A handler that has returned stays only while calls of its are in flight.
returned(op) ==
    IF \E k \in 1..Len(op.calls) : op.results[k] = "pending"
    THEN {[op EXCEPT !.phase = "done"]}
    ELSE {}

canStart ==
    /\ noModal
    /\ Cardinality(batches) < MaxBatches
    /\ started < MaxStarted
    /\ findIndex(drives, activeDrive) # 0

\* A backend call in flight settles: the backend carries it out, or it
\* fails and the backend is as before.
requestSettles ==
    /\ \E op \in batches, ok \in BOOLEAN :
          \E k \in 1..Len(op.calls) :
              /\ op.results[k] = "pending"
              /\ ok => canSucceed(backend, op.drive.id, op.calls[k])
              /\ backend' = IF ok THEN carriedOut(backend, op.drive.id, op.calls[k])
                            ELSE backend
              /\ LET settled == [op EXCEPT !.results[k] = IF ok THEN "ok" ELSE "failed"]
                 IN  pending' = (pending \ {op})
                                \cup (IF op.phase = "done" THEN returned(settled)
                                      ELSE {settled})
    /\ dialog' = noDialog
    /\ keydown' = noKey
    /\ UNCHANGED <<currentPath, activeDrive, drives, files, selectedPaths, clipboard,
                   uploading, previewFile, isAddDriveOpen, isIslandExpanded, localStorage,
                   timers, isLongPress, storage, notApp>>

\* Another client of the WebDAV server creates a file.
externalCreate ==
    /\ ~exists(backend, "d1", fileC)
    /\ backend' = backend \cup {Node("d1", fileC, FALSE, "ext")}
    /\ dialog' = noDialog
    /\ keydown' = noKey
    /\ UNCHANGED <<currentPath, activeDrive, drives, files, selectedPaths, clipboard,
                   uploading, previewFile, isAddDriveOpen, isIslandExpanded, localStorage,
                   timers, isLongPress, pending, storage, notApp>>

\* handleDelete up to its await.
handleDelete ==
    /\ canStart
    /\ isSelectionMode
    /\ \E answer \in BOOLEAN :
          /\ dialog' = Confirm("confirmDeleteItems", answer)
          /\ pending' =
                IF answer
                THEN LET items == ArrayFrom(selectedPaths)
                     IN  pending \cup
                         {Batch("handleDelete", items, noPath, FALSE, "delete",
                                delete(items, drives[findIndex(drives, activeDrive)],
                                       isNativePlatform))}
                ELSE pending
    /\ keydown' = noKey
    /\ UNCHANGED <<currentPath, activeDrive, drives, files, selectedPaths, clipboard,
                   uploading, previewFile, isAddDriveOpen, isIslandExpanded, localStorage,
                   timers, isLongPress, backend, storage, notStart>>
    /\ started' = IF pending' # pending THEN started + 1 ELSE started

\* handleDelete after FileService.delete resolved.
deleteResolved ==
    /\ \E op \in batches :
          /\ op.kind = "handleDelete" /\ op.phase = "delete"
          /\ allOk(op)
          /\ pending' = (pending \ {op}) \cup op.list
    /\ selectedPaths' = {}
    /\ dialog' = noDialog
    /\ keydown' = noKey
    /\ UNCHANGED <<currentPath, activeDrive, drives, files, clipboard, uploading,
                   previewFile, isAddDriveOpen, isIslandExpanded, localStorage, timers,
                   isLongPress, backend, storage, notApp>>

\* handleDelete after FileService.delete rejected.
deleteRejected ==
    /\ \E op \in batches :
          /\ op.kind = "handleDelete" /\ op.phase = "delete"
          /\ someFailed(op)
          /\ pending' = (pending \ {op}) \cup returned(op)
    /\ dialog' = Alert("deleteFailed")
    /\ keydown' = noKey
    /\ UNCHANGED <<currentPath, activeDrive, drives, files, selectedPaths, clipboard,
                   uploading, previewFile, isAddDriveOpen, isIslandExpanded, localStorage,
                   timers, isLongPress, backend, storage, notApp>>

\* handleMove(items, destination) up to its first await: one
\* FileService.rename per item, each to the item's own name.
handleMoveAnyDestination(items, destination, paste) ==
    LET drive == drives[findIndex(drives, activeDrive)]
    IN  {Batch("handleMove", items, destination, paste, "rename",
               flatten(map(items, LAMBDA item :
                           rename(item, baseName(item), drive, isNativePlatform))))}

handleMove(items, destination, paste) ==
    IF includes(items, destination) THEN {}
    ELSE LET drive == drives[findIndex(drives, activeDrive)]
         IN  {Batch("handleMove", items, destination, paste, "rename",
                    flatten(map(items, LAMBDA item :
                                rename(item, baseName(item), drive, isNativePlatform))))}

handleDropOntoItself ==
    /\ canStart
    /\ \E dragged \in files, file \in files :
          LET itemsToMove == IF dragged.path \in selectedPaths
                             THEN ArrayFrom(selectedPaths) ELSE <<dragged.path>>
          IN  /\ file.isDirectory
              /\ lastDrop' = IF includes(itemsToMove, file.path)
                             THEN [items |-> itemsToMove, destination |-> file.path]
                             ELSE lastDrop
              /\ pending' = pending \cup handleMoveAnyDestination(itemsToMove, file.path, FALSE)
    /\ dialog' = noDialog
    /\ keydown' = noKey
    /\ UNCHANGED <<currentPath, activeDrive, drives, files, selectedPaths, clipboard,
                   uploading, previewFile, isAddDriveOpen, isIslandExpanded, localStorage,
                   timers, isLongPress, backend, storage, proxyVars, calls, serviceVars,
                   isNativePlatform, modal>>
    /\ started' = IF pending' # pending \/ lastDrop' # lastDrop THEN started + 1
                  ELSE started

\* FileItem handleDrop, with the items handleDragStart put in the transfer;
\* lastDrop keeps the last drop it returned from without calling handleMove.
handleDrop ==
    /\ canStart
    /\ \E dragged \in files, file \in files :
          LET itemsToMove == IF dragged.path \in selectedPaths
                             THEN ArrayFrom(selectedPaths) ELSE <<dragged.path>>
          IN  /\ file.isDirectory
              /\ lastDrop' = IF includes(itemsToMove, file.path)
                             THEN [items |-> itemsToMove, destination |-> file.path]
                             ELSE lastDrop
              /\ pending' = IF includes(itemsToMove, file.path) THEN pending
                            ELSE pending \cup handleMove(itemsToMove, file.path, FALSE)
    /\ dialog' = noDialog
    /\ keydown' = noKey
    /\ UNCHANGED <<currentPath, activeDrive, drives, files, selectedPaths, clipboard,
                   uploading, previewFile, isAddDriveOpen, isIslandExpanded, localStorage,
                   timers, isLongPress, backend, storage, proxyVars, calls, serviceVars,
                   isNativePlatform, modal>>
    /\ started' = IF pending' # pending \/ lastDrop' # lastDrop THEN started + 1
                  ELSE started

\* handlePaste up to its await of handleMove; when handleMove returns at
\* once, setClipboard(null) follows at once.
handlePaste ==
    /\ canStart
    /\ ~isSelectionMode
    /\ hasClipboard
    /\ pending' = pending \cup handleMove(clipboard.items, currentPath, TRUE)
    /\ clipboard' = IF handleMove(clipboard.items, currentPath, TRUE) = {} THEN null
                    ELSE clipboard
    /\ dialog' = noDialog
    /\ keydown' = noKey
    /\ UNCHANGED <<currentPath, activeDrive, drives, files, selectedPaths, uploading,
                   previewFile, isAddDriveOpen, isIslandExpanded, localStorage, timers,
                   isLongPress, backend, storage, notStart>>
    /\ started' = IF pending' # pending THEN started + 1 ELSE started

\* handleMove after its renames have all settled (a failure is logged
\* only): FileService.move issues one call per item.
moveRenamed ==
    /\ \E op \in batches :
          /\ op.kind = "handleMove" /\ op.phase = "rename"
          /\ allSettled(op)
          /\ LET issued == move(op.items, op.destination, op.drive, isNativePlatform)
             IN  pending' = (pending \ {op})
                            \cup {[op EXCEPT !.phase = "move",
                                             !.group = Len(op.calls) + 1,
                                             !.calls = op.calls \o issued,
                                             !.results = op.results \o
                                                 [k \in 1..Len(issued) |-> "pending"]]}
    /\ dialog' = noDialog
    /\ keydown' = noKey
    /\ UNCHANGED <<currentPath, activeDrive, drives, files, selectedPaths, clipboard,
                   uploading, previewFile, isAddDriveOpen, isIslandExpanded, localStorage,
                   timers, isLongPress, backend, storage, notApp>>

\* handleMove after FileService.move resolved; handlePaste then resets the
\* clipboard.
moveResolved ==
    /\ \E op \in batches :
          /\ op.kind = "handleMove" /\ op.phase = "move"
          /\ allOk(op)
          /\ pending' = (pending \ {op}) \cup op.list
          /\ clipboard' = IF op.paste THEN null ELSE clipboard
    /\ selectedPaths' = {}
    /\ dialog' = noDialog
    /\ keydown' = noKey
    /\ UNCHANGED <<currentPath, activeDrive, drives, files, uploading, previewFile,
                   isAddDriveOpen, isIslandExpanded, localStorage, timers, isLongPress,
                   backend, storage, notApp>>

\* A rejection that would also give up the calls still in flight.
moveRejectedCancels ==
    /\ \E op \in batches :
          /\ op.kind = "handleMove" /\ op.phase = "move"
          /\ someFailed(op)
          /\ pending' = pending \ {op}
          /\ clipboard' = IF op.paste THEN null ELSE clipboard
    /\ dialog' = Alert("moveFailed")
    /\ keydown' = noKey
    /\ UNCHANGED <<currentPath, activeDrive, drives, files, selectedPaths, uploading,
                   previewFile, isAddDriveOpen, isIslandExpanded, localStorage, timers,
                   isLongPress, backend, storage, notApp>>

\* handleMove after FileService.move rejected: the alert; handlePaste then
\* resets the clipboard.
moveRejected ==
    /\ \E op \in batches :
          /\ op.kind = "handleMove" /\ op.phase = "move"
          /\ someFailed(op)
          /\ pending' = (pending \ {op}) \cup returned(op)
          /\ clipboard' = IF op.paste THEN null ELSE clipboard
    /\ dialog' = Alert("moveFailed")
    /\ keydown' = noKey
    /\ UNCHANGED <<currentPath, activeDrive, drives, files, selectedPaths, uploading,
                   previewFile, isAddDriveOpen, isIslandExpanded, localStorage, timers,
                   isLongPress, backend, storage, notApp>>

UploadBatches == {<<"a">>, <<"c">>, <<"a", "c">>}
RenameAnswers == {"", "a", "b", "c"}
FolderAnswers == {"", "d", "c"}
Prompt(message, answer) == [kind |-> "prompt", message |-> message, answer |-> answer]

\* handleUpload up to its await: the duplicate check against the displayed
\* listing, the confirm dialog, then one FileService.uploadFile per file.
handleUpload ==
    /\ canStart
    /\ \E acceptedFiles \in UploadBatches, answer \in BOOLEAN :
          LET asked == Len(duplicates(acceptedFiles, files)) > 0
              drive == drives[findIndex(drives, activeDrive)]
              remotePaths == map(acceptedFiles, LAMBDA name : childOf(currentPath, name))
          IN  /\ ~asked => answer
              /\ dialog' = IF asked THEN Confirm("confirmOverwrite", answer) ELSE noDialog
              /\ uploading' = IF answer THEN TRUE ELSE uploading
              /\ pending' =
                    IF answer
                    THEN pending \cup
                         {Batch("handleUpload", remotePaths, noPath, FALSE, "upload",
                                flatten(map(remotePaths, LAMBDA remotePath :
                                            uploadFile(remotePath, drive, isNativePlatform))))}
                    ELSE pending
    /\ keydown' = noKey
    /\ UNCHANGED <<currentPath, activeDrive, drives, files, selectedPaths, clipboard,
                   previewFile, isAddDriveOpen, isIslandExpanded, localStorage, timers,
                   isLongPress, backend, storage, notStart>>
    /\ started' = IF pending' # pending THEN started + 1 ELSE started

\* handleUpload after every upload resolved: it awaits fetchFiles(currentPath).
uploadResolved ==
    /\ \E op \in batches :
          /\ op.kind = "handleUpload" /\ op.phase = "upload"
          /\ allOk(op)
          /\ pending' = (pending \ {op}) \cup {[op EXCEPT !.phase = "listing"]}
    /\ dialog' = noDialog
    /\ keydown' = noKey
    /\ UNCHANGED <<currentPath, activeDrive, drives, files, selectedPaths, clipboard,
                   uploading, previewFile, isAddDriveOpen, isIslandExpanded, localStorage,
                   timers, isLongPress, backend, storage, notApp>>

\* handleUpload after an upload rejected: the alert, then finally.
uploadRejected ==
    /\ \E op \in batches :
          /\ op.kind = "handleUpload" /\ op.phase = "upload"
          /\ someFailed(op)
          /\ pending' = (pending \ {op}) \cup returned(op)
    /\ dialog' = Alert("uploadFailed")
    /\ uploading' = FALSE
    /\ keydown' = noKey
    /\ UNCHANGED <<currentPath, activeDrive, drives, files, selectedPaths, clipboard,
                   previewFile, isAddDriveOpen, isIslandExpanded, localStorage, timers,
                   isLongPress, backend, storage, notApp>>

\* The fetchFiles awaited by handleUpload settles (it catches its own
\* error), then setIsIslandExpanded(false) and finally.
uploadListed ==
    /\ \E op \in batches, ok \in BOOLEAN :
          /\ op.kind = "handleUpload" /\ op.phase = "listing"
          /\ ok => directoryExists(backend, op.drive, op.path)
          /\ LET filesList == listFilesResult(backend, op.drive, op.path, isNativePlatform)
             IN  /\ files' = IF ok THEN filesList ELSE files
                 /\ selectedPaths' = IF ok THEN {} ELSE selectedPaths
                 /\ isLongPress' = IF ok THEN isLongPress \cap pathsOf(filesList)
                                   ELSE isLongPress
          /\ dialog' = IF ok THEN noDialog ELSE Alert("Error")
          /\ pending' = pending \ {op}
    /\ isIslandExpanded' = FALSE
    /\ uploading' = FALSE
    /\ keydown' = noKey
    /\ UNCHANGED <<currentPath, activeDrive, drives, clipboard, previewFile,
                   isAddDriveOpen, localStorage, timers, backend, storage, notApp>>

\* handleRename up to its await: the prompt, the check of the new name
\* against the displayed listing, then FileService.rename.
handleRename ==
    /\ canStart
    /\ Cardinality(selectedPaths) = 1
    /\ \E newName \in RenameAnswers :
          LET oldPath == ArrayFrom(selectedPaths)[1]
              oldName == baseName(oldPath)
              drive == drives[findIndex(drives, activeDrive)]
          IN  IF newName = "" \/ newName = oldName
              THEN dialog' = Prompt("renamePrompt", newName) /\ pending' = pending
              ELSE IF newName \in namesOf(files)
              THEN dialog' = Alert("fileExists") /\ pending' = pending
              ELSE /\ dialog' = Prompt("renamePrompt", newName)
                   /\ pending' = pending \cup
                         {Batch("handleRename", <<oldPath>>, noPath, FALSE, "rename",
                                rename(oldPath, newName, drive, isNativePlatform))}
    /\ keydown' = noKey
    /\ UNCHANGED <<currentPath, activeDrive, drives, files, selectedPaths, clipboard,
                   uploading, previewFile, isAddDriveOpen, isIslandExpanded, localStorage,
                   timers, isLongPress, backend, storage, notStart>>
    /\ started' = IF pending' # pending THEN started + 1 ELSE started

renameResolved ==
    /\ \E op \in batches :
          /\ op.kind = "handleRename" /\ op.phase = "rename"
          /\ allOk(op)
          /\ pending' = (pending \ {op}) \cup op.list
    /\ selectedPaths' = {}
    /\ dialog' = noDialog
    /\ keydown' = noKey
    /\ UNCHANGED <<currentPath, activeDrive, drives, files, clipboard, uploading,
                   previewFile, isAddDriveOpen, isIslandExpanded, localStorage, timers,
                   isLongPress, backend, storage, notApp>>

\* A failure that would refresh the listing all the same.
renameRejectedRefreshes ==
    /\ \E op \in batches :
          /\ op.kind = "handleRename" /\ op.phase = "rename"
          /\ someFailed(op)
          /\ pending' = (pending \ {op}) \cup returned(op) \cup op.list
    /\ dialog' = Alert("renameFailed")
    /\ keydown' = noKey
    /\ UNCHANGED <<currentPath, activeDrive, drives, files, selectedPaths, clipboard,
                   uploading, previewFile, isAddDriveOpen, isIslandExpanded, localStorage,
                   timers, isLongPress, backend, storage, notApp>>

\* handleRename after FileService.rename rejected: the alert only.
renameRejected ==
    /\ \E op \in batches :
          /\ op.kind = "handleRename" /\ op.phase = "rename"
          /\ someFailed(op)
          /\ pending' = (pending \ {op}) \cup returned(op)
    /\ dialog' = Alert("renameFailed")
    /\ keydown' = noKey
    /\ UNCHANGED <<currentPath, activeDrive, drives, files, selectedPaths, clipboard,
                   uploading, previewFile, isAddDriveOpen, isIslandExpanded, localStorage,
                   timers, isLongPress, backend, storage, notApp>>

\* The plus button of the island and its close button.
expandIsland ==
    /\ noModal
    /\ ~isSelectionMode /\ ~hasClipboard
    /\ ~isIslandExpanded
    /\ isIslandExpanded' = TRUE
    /\ dialog' = noDialog
    /\ keydown' = noKey
    /\ UNCHANGED <<currentPath, activeDrive, drives, files, selectedPaths, clipboard,
                   uploading, previewFile, isAddDriveOpen, localStorage, timers,
                   isLongPress, pending, backend, storage, notApp>>

collapseIsland ==
    /\ noModal
    /\ ~isSelectionMode /\ ~hasClipboard
    /\ isIslandExpanded
    /\ isIslandExpanded' = FALSE
    /\ dialog' = noDialog
    /\ keydown' = noKey
    /\ UNCHANGED <<currentPath, activeDrive, drives, files, selectedPaths, clipboard,
                   uploading, previewFile, isAddDriveOpen, localStorage, timers,
                   isLongPress, pending, backend, storage, notApp>>

\* The add-drive button of the sidebar, which the preview covers, and the
\* onClose callback App hands to the add-drive dialog.
openAddDrive ==
    /\ previewFile = null
    /\ ~isAddDriveOpen
    /\ isAddDriveOpen' = TRUE
    /\ dialog' = noDialog
    /\ keydown' = noKey
    /\ UNCHANGED <<currentPath, activeDrive, drives, files, selectedPaths, clipboard,
                   uploading, previewFile, isIslandExpanded, localStorage, timers,
                   isLongPress, pending, backend, storage, notApp>>

closeAddDrive ==
    /\ isAddDriveOpen
    /\ isAddDriveOpen' = FALSE
    /\ dialog' = noDialog
    /\ keydown' = noKey
    /\ UNCHANGED <<currentPath, activeDrive, drives, files, selectedPaths, clipboard,
                   uploading, previewFile, isIslandExpanded, localStorage, timers,
                   isLongPress, pending, backend, storage, notApp>>

\* The new-folder button of the expanded island, up to its await.
createFolder ==
    /\ canStart
    /\ ~isSelectionMode /\ ~hasClipboard
    /\ isIslandExpanded
    /\ \E name \in FolderAnswers :
          LET drive == drives[findIndex(drives, activeDrive)]
              newPath == childOf(currentPath, name)
          IN  IF name = ""
              THEN dialog' = Prompt("folderNamePrompt", name) /\ pending' = pending
              ELSE IF name \in namesOf(files)
              THEN dialog' = Alert("folderExists") /\ pending' = pending
              ELSE /\ dialog' = Prompt("folderNamePrompt", name)
                   /\ pending' = pending \cup
                         {Batch("createFolder", <<newPath>>, noPath, FALSE, "mkdir",
                                createDirectory(newPath, drive, isNativePlatform))}
    /\ keydown' = noKey
    /\ UNCHANGED <<currentPath, activeDrive, drives, files, selectedPaths, clipboard,
                   uploading, previewFile, isAddDriveOpen, isIslandExpanded, localStorage,
                   timers, isLongPress, backend, storage, notStart>>
    /\ started' = IF pending' # pending THEN started + 1 ELSE started

createResolved ==
    /\ \E op \in batches :
          /\ op.kind = "createFolder" /\ op.phase = "mkdir"
          /\ allOk(op)
          /\ pending' = (pending \ {op}) \cup op.list
    /\ isIslandExpanded' = FALSE
    /\ dialog' = noDialog
    /\ keydown' = noKey
    /\ UNCHANGED <<currentPath, activeDrive, drives, files, selectedPaths, clipboard,
                   uploading, previewFile, isAddDriveOpen, localStorage, timers,
                   isLongPress, backend, storage, notApp>>

createRejected ==
    /\ \E op \in batches :
          /\ op.kind = "createFolder" /\ op.phase = "mkdir"
          /\ someFailed(op)
          /\ pending' = (pending \ {op}) \cup returned(op)
    /\ dialog' = Alert("createFolderFailed")
    /\ keydown' = noKey
    /\ UNCHANGED <<currentPath, activeDrive, drives, files, selectedPaths, clipboard,
                   uploading, previewFile, isAddDriveOpen, isIslandExpanded, localStorage,
                   timers, isLongPress, backend, storage, notApp>>

\* The page some time after load: the drive list fetched, the WebDAV drive
\* active and its root listed.
BatchInit ==
    /\ localStorage = [last_path |-> Item(root), last_drive |-> Item("d1")]
    /\ drives = <<defaultLocal, webdavDrive>>
    /\ currentPath = root
    /\ activeDrive = "d1"
    /\ backend = BrowsedNodes
    /\ files = directoryContents(BrowsedNodes, webdavDrive, root)
    /\ selectedPaths = {}
    /\ clipboard = null
    /\ uploading = FALSE
    /\ previewFile = null
    /\ isAddDriveOpen = FALSE
    /\ isIslandExpanded = FALSE
    /\ timers = {}
    /\ isLongPress = {}
    /\ pending = {}
    /\ dialog = noDialog
    /\ started = 0
    /\ lastDrop = [items |-> <<>>, destination |-> <<>>]
    /\ keydown = [key |-> "none", previewFile |-> FALSE, isAddDriveOpen |-> FALSE,
                  isIslandExpanded |-> FALSE, selectedPaths |-> FALSE]
    /\ modal = [mounted |-> FALSE, mount |-> 0, file |-> [t |-> "null"], drive |-> "local",
                activeDriveConfig |-> [t |-> "null"], fileUrl |-> [t |-> "null"],
                content |-> [t |-> "null"],
                cleanup |-> [registered |-> FALSE, fileUrl |-> [t |-> "null"]],
                getDrives |-> FALSE, loads |-> {}, created |-> {}, revoked |-> {}]
    /\ isNativePlatform = FALSE
    /\ storage = JSONtext(<<webdavDrive>>)
    /\ calls = <<>>
    /\ proxyIdle
    /\ serviceIdle

\* Selection, drag and drop, cut and paste, delete.
MoveNext ==
    \/ onClickCheckbox
    \/ fetchFilesResolved
    \/ fetchFilesRejected
    \/ cancelSelection
    \/ cancelMove
    \/ handleCut
    \/ requestSettles
    \/ handleDelete
    \/ deleteResolved
    \/ deleteRejected
    \/ handleDrop
    \/ handlePaste
    \/ moveRenamed
    \/ moveResolved
    \/ moveRejected

MoveSpec == BatchInit /\ [][MoveNext]_vars

\* Upload, rename and new folder, beside another client of the server.
WriteNext ==
    \/ onClickCheckbox
    \/ fetchFilesResolved
    \/ fetchFilesRejected
    \/ cancelSelection
    \/ requestSettles
    \/ externalCreate
    \/ handleUpload
    \/ uploadResolved
    \/ uploadRejected
    \/ uploadListed
    \/ handleRename
    \/ renameResolved
    \/ renameRejected
    \/ expandIsland
    \/ collapseIsland
    \/ createFolder
    \/ createResolved
    \/ createRejected

WriteSpec == BatchInit /\ [][WriteNext]_vars

\* Cut, navigation into a folder, paste and drop.
PasteNext ==
    \/ onClickCheckbox
    \/ onClick
    \/ fetchFilesResolved
    \/ fetchFilesRejected
    \/ handleCut
    \/ cancelMove
    \/ handleDrop
    \/ handlePaste
    \/ requestSettles
    \/ moveRenamed
    \/ moveResolved
    \/ moveRejected

PasteSpec == BatchInit /\ [][PasteNext]_vars

\* The layers Escape closes: preview, add-drive dialog, expanded island and
\* selection, opened and closed over the listing of the stored session.
OverlayNext ==
    \/ onClickCheckbox
    \/ onClick
    \/ fetchFilesResolved
    \/ fetchFilesRejected
    \/ cancelSelection
    \/ expandIsland
    \/ collapseIsland
    \/ openAddDrive
    \/ closeAddDrive
    \/ handleKeyDown

OverlaySpec == BatchInit /\ [][OverlayNext]_vars

listingSettles(op) == op \in pending /\ op.kind = "fetchFiles" /\ op \notin pending'
navigates == currentPath' # currentPath \/ activeDrive' # activeDrive

\* C12: every selected path is the path of an entry of the displayed
\* listing.
C12_SelectionInListing == selectedPaths \subseteq pathsOf(files)

\* C13: the selection is empty when the listing request of a navigation
\* settles, after the Cancel button, and after Escape with no preview, no
\* add-drive dialog and no expanded island.
C13_SelectionCleared ==
    [][/\ (\E op \in pending : listingSettles(op) /\ op.cause = "navigation")
             => selectedPaths' = {}
       /\ cancelSelection => selectedPaths' = {}
       /\ (handleKeyDown /\ previewFile = null /\ ~isAddDriveOpen /\ ~isIslandExpanded)
             => selectedPaths' = {}]_vars

\* C14 as stated: after a navigation to another directory or drive, and
\* after cancel-move, the clipboard is null.
C14_ClearedOnNavigation ==
    [][(navigates \/ cancelMove) => clipboard' = null]_vars

\* C14 amended: navigation to another directory or drive and the settling
\* of a listing request leave the clipboard as it is; cancel-move sets it
\* to null.
C14_KeptOnNavigation ==
    [][/\ (navigates \/ \E op \in pending : listingSettles(op)) => clipboard' = clipboard
       /\ cancelMove => clipboard' = null]_vars

\* /a was cut at the root of d1, then /d was entered and listed.
C14_Witness ==
    /\ clipboard # null
    /\ clipboard.items = <<fileA>>
    /\ currentPath = dirD
    /\ files = {}
    /\ pending = {}

\* C19: once no drive list fetch and no removal is in flight, the active
\* drive id is the id of a drive of the displayed drive list.
C19_ActiveDriveListed ==
    (\A op \in pending : op.kind \notin {"fetchDrives", "removeDrive"}) =>
        \E k \in 1..Len(drives) : drives[k].id = activeDrive

C15_OneRequestPerItem ==
    \A op \in batches :
        /\ op.kind = "handleDelete" => Len(op.calls) = Len(op.items)
        /\ op.kind = "handleMove" =>
              /\ Len(op.calls) <= Len(op.items)
              /\ op.phase \in {"move", "done"} => Len(op.calls) = Len(op.items)

stillInFlight(nxt) ==
    \A op \in batches : \A k \in 1..Len(op.calls) :
        op.results[k] = "pending" =>
            \E op2 \in nxt : /\ isBatch(op2)
                              /\ op2.calls = op.calls
                              /\ op2.results[k] = "pending"

\* C16: when FileService.move rejects, the handler shows the one alert
\* 'moveFailed' and nothing else: the backend keeps what the calls that
\* succeeded have done, the calls still in flight stay in flight, and no
\* other step of a move (a call settling, the renames done, the move
\* resolved) shows anything; afterwards the backend changes only by a
\* call in flight being carried out.
C16_PartialMove ==
    [][/\ moveRejected =>
             /\ backend' = backend
             /\ dialog' = Alert("moveFailed")
             /\ stillInFlight(pending')
       /\ (requestSettles \/ moveRenamed \/ moveResolved) => dialog' = noDialog
       /\ backend' # backend =>
             \E op \in batches : \E k \in 1..Len(op.calls) :
                 /\ op.results[k] = "pending"
                 /\ backend' = carriedOut(backend, op.drive.id, op.calls[k])]_vars

\* /a and /b were dropped onto /d: /a is in /d, /b is where it was, the
\* alert is shown and the handler has returned.
C16_Witness ==
    /\ dialog = Alert("moveFailed")
    /\ exists(backend, "d1", dirD \o fileA)
    /\ ~exists(backend, "d1", fileA)
    /\ exists(backend, "d1", fileB)
    /\ batches = {}

startedNow(kind) ==
    IF Cardinality(batches') > Cardinality(batches)
    THEN {op \in pending' \ pending : isBatch(op) /\ op.kind = kind}
    ELSE {}

\* C17: the overwrite confirmation declined leaves requests, backend,
\* listing, selection and uploading flag as they were; an upload starts
\* without confirmation exactly when no name of the batch is a name of the
\* displayed listing, whatever the backend holds, and issues one call per
\* file; a rename or a new folder starts only with a name that is not in
\* the displayed listing, and the alert for an existing name issues
\* nothing.
C17_DuplicateCheck ==
    [][/\ dialog' = Confirm("confirmOverwrite", FALSE) =>
             UNCHANGED <<pending, backend, files, selectedPaths, uploading>>
       /\ \A op \in startedNow("handleUpload") :
             /\ dialog' = noDialog <=>
                   \A k \in 1..Len(op.items) : baseName(op.items[k]) \notin namesOf(files)
             /\ dialog' # noDialog => dialog' = Confirm("confirmOverwrite", TRUE)
             /\ Len(op.calls) = Len(op.items)
       /\ \A op \in startedNow("handleRename") : baseName(op.calls[1].to) \notin namesOf(files)
       /\ \A op \in startedNow("createFolder") : baseName(op.calls[1].path) \notin namesOf(files)
       /\ dialog' \in {Alert("fileExists"), Alert("folderExists")} =>
             UNCHANGED <<pending, backend>>]_vars

\* /c was created on the server after the root was listed; the upload of
\* a file named c is in flight, started without a confirmation.
C17_Witness ==
    /\ Node("d1", fileC, FALSE, "ext") \in backend
    /\ "c" \notin namesOf(files)
    /\ dialog = noDialog
    /\ \E op \in batches : /\ op.kind = "handleUpload"
                            /\ op.items = <<fileC>>
                            /\ op.results = <<"pending">>

\* C21: when a listing response is taken and leaves no listing request in
\* flight, the displayed listing is the listing of the current path on the
\* active drive.
C21_ListingOfCurrentPath ==
    [][(/\ fetchFilesResolved
        /\ findIndex(drives, activeDrive) # 0
        /\ \A op \in pending' : op.kind # "fetchFiles")
       => files' = listFilesResult(backend, activeDriveConfig(drives, activeDrive),
                                   currentPath, isNativePlatform)]_vars

\* C22: uploading is true while an upload call issued by handleUpload is in
\* flight, and false when no handleUpload is running or has calls in
\* flight.
C22_UploadingWhileInFlight ==
    /\ (\E op \in batches : /\ op.kind = "handleUpload"
                             /\ \E k \in 1..Len(op.calls) : op.results[k] = "pending")
          => uploading
    /\ (\A op \in batches : op.kind # "handleUpload") => ~uploading

\* C23: the fetch of a GET or HEAD request carries no body, and the fetch
\* of any other request carries a body only when the inbound body has
\* content.
C23_BodyUpstream ==
    \A i \in 1..Len(fetches) :
        /\ req.method \in {"GET", "HEAD"} => fetches[i].options.body = undefined
        /\ fetches[i].options.body # undefined => content(req.body) # <<>>

\* C24: a move whose destination is one of its items, started by a drop or
\* by a paste, leaves the requests in flight, the backend, the listing, the
\* selection and the clipboard as they were.
C24_SelfMoveInert ==
    [][((handleDrop /\ lastDrop' # lastDrop)
        \/ (handlePaste /\ includes(clipboard.items, currentPath)))
       => UNCHANGED <<pending, backend, files, selectedPaths, clipboard>>]_vars

\* C24 as the code has it: no move is ever started with its destination
\* among its items; the drop that handleDrop ignores changes none of
\* requests, backend, listing, selection and clipboard; the paste into a
\* folder that is on the clipboard changes none of requests, backend,
\* listing and selection, and handlePaste then sets the clipboard to null.
C24_SelfDropInert ==
    [][/\ (handleDrop /\ lastDrop' # lastDrop)
             => UNCHANGED <<pending, backend, files, selectedPaths, clipboard>>
       /\ (handlePaste /\ includes(clipboard.items, currentPath))
             => /\ UNCHANGED <<pending, backend, files, selectedPaths>>
                /\ clipboard' = null
       /\ \A op \in startedNow("handleMove") : ~includes(op.items, op.destination)]_vars

\* /b is on the clipboard, /d and /a are selected, and the selection was
\* dropped onto /d: nothing is in flight and nothing has moved.
C24_Witness ==
    /\ lastDrop.destination = dirD
    /\ includes(lastDrop.items, dirD) /\ includes(lastDrop.items, fileA)
    /\ selectedPaths = {dirD, fileA}
    /\ hasClipboard /\ clipboard.items = <<fileB>>
    /\ pending = {}
    /\ backend = BrowsedNodes

pasteRunning(op) == op.kind = "handleMove" /\ op.paste /\ op.phase \in {"rename", "move"}

\* C25: a step that puts items on the clipboard puts exactly the selected
\* paths there and empties the selection; a paste starts a move only with a
\* clipboard, of the clipboard items into the current directory, each call
\* of FileService.move taking one item to its own name under that
\* directory; and the step in which the move of a paste ends, resolved or
\* rejected, leaves the clipboard null.
C25_CutPaste ==
    [][/\ (clipboard' # clipboard /\ clipboard' # null)
             => /\ {clipboard'.items[k] : k \in 1..Len(clipboard'.items)} = selectedPaths
                /\ Len(clipboard'.items) = Cardinality(selectedPaths)
                /\ selectedPaths' = {}
       /\ \A op \in startedNow("handleMove") :
             op.paste => /\ hasClipboard
                         /\ op.items = clipboard.items
                         /\ op.destination = currentPath
       /\ \A op \in batches' :
             (pasteRunning(op) /\ op.phase = "move")
                => \A i \in 1..Len(op.items) :
                      LET call == op.calls[op.group + i - 1]
                      IN  /\ call.fn = "moveFile"
                          /\ call.path = op.items[i]
                          /\ parentOf(call.to) = op.destination
                          /\ baseName(call.to) = baseName(op.items[i])
       /\ \A op \in batches :
             (/\ pasteRunning(op)
              /\ ~\E op2 \in batches' : pasteRunning(op2) /\ op2.items = op.items)
                => clipboard' = null]_vars

\* /a and /b were cut at the root and pasted in /d: /a arrived, the move of
\* /b failed, the alert is shown and the clipboard is null.
C25_Witness ==
    /\ dialog = Alert("moveFailed")
    /\ clipboard = null
    /\ currentPath = dirD
    /\ exists(backend, "d1", dirD \o fileA)
    /\ exists(backend, "d1", fileB)
    /\ batches = {}

\* C26: a rename request starts only with exactly one item selected and a
\* name that is not empty, not the old name and not a name of the displayed
\* listing, and is one call for the selected item; the prompt left empty
\* or unchanged and the alert for an existing name leave requests, backend,
\* selection and listing as they were; the alert for a failed rename
\* leaves selection and listing as they were and starts no listing request.
C26_RenameGuards ==
    [][/\ \A op \in startedNow("handleRename") :
             LET newName == baseName(op.calls[1].to)
             IN  /\ Cardinality(selectedPaths) = 1
                 /\ selectedPaths = {op.items[1]}
                 /\ Len(op.calls) = 1
                 /\ op.calls[1].path = op.items[1]
                 /\ newName # ""
                 /\ newName # baseName(op.items[1])
                 /\ newName \notin namesOf(files)
                 /\ dialog' = Prompt("renamePrompt", newName)
       /\ (/\ dialog'.kind = "prompt" /\ dialog'.message = "renamePrompt"
           /\ \/ dialog'.answer = ""
              \/ \E path \in selectedPaths : dialog'.answer = baseName(path))
             => UNCHANGED <<pending, backend, selectedPaths, files>>
       /\ dialog' = Alert("fileExists")
             => UNCHANGED <<pending, backend, selectedPaths, files>>
       /\ dialog' = Alert("renameFailed")
             => /\ UNCHANGED <<selectedPaths, files>>
                /\ {op \in pending' : op.kind = "fetchFiles"} \subseteq pending]_vars

\* The rename of /a to c failed: the alert is shown, /a is still selected
\* and still there, and no listing request is in flight.
C26_Witness ==
    /\ dialog = Alert("renameFailed")
    /\ selectedPaths = {fileA}
    /\ exists(backend, "d1", fileA)
    /\ fileA \in pathsOf(files)
    /\ pending = {}

\* C27: every call FileService.rename issues takes oldPath to the path that
\* differs from oldPath in its last segment only, which is newName: the
\* item keeps its directory, under the root as elsewhere.
C27_RenameSameDirectory ==
    invocation.op = "rename" =>
        \A k \in 1..Len(backendCalls) :
            LET from == backendCalls[k].path
                to == backendCalls[k].to
            IN  /\ from = invocation.path
                /\ Len(to) = Len(from)
                /\ \A i \in 1..(Len(from) - 1) : to[i] = from[i]
                /\ to[Len(to)] = invocation.name
                /\ parentOf(to) = parentOf(from)

\* /a on a WebDAV drive renamed to c: one moveFile from /a to /c.
C27_Witness ==
    /\ invocation.op = "rename"
    /\ invocation.path = fileA
    /\ invocation.name = "c"
    /\ backendCalls = <<WebDAVCall("moveFile", fileA, fileC)>>

(***************************************************************************)
(* PreviewModal: the drive configuration effect, the load content effect   *)
(* with its cleanup, and the object URLs created and revoked.  modal holds *)
(* the component state of the mounted modal, the cleanup function the last *)
(* run of the load content effect returned (with the fileUrl of the render *)
(* it closed over), the loadContent calls in flight, and every object URL  *)
(* created and revoked so far.                                             *)
(***************************************************************************)
MaxOpens == 2

imageP == [name |-> "p.png", path |-> <<"/", "p.png">>, isDirectory |-> FALSE,
           type |-> <<"image", "/", "png">>]
imageQ == [name |-> "q.png", path |-> <<"/", "q.png">>, isDirectory |-> FALSE,
           type |-> <<"image", "/", "png">>]
textN == [name |-> "n.txt", path |-> <<"/", "n.txt">>, isDirectory |-> FALSE,
          type |-> <<"text", "/", "plain">>]
PreviewFiles == {imageP, imageQ, textN}
PreviewDrives == {defaultLocal, webdavDrive}

\* fileType.startsWith('image/'), fileType.startsWith('text/')
isImage(file) == Len(file.type) >= 2 /\ file.type[1] = "image" /\ file.type[2] = "/"
isText(file) == Len(file.type) >= 2 /\ file.type[1] = "text" /\ file.type[2] = "/"

\* URL.createObjectURL(blob), Capacitor.convertFileSrc(uri) and ''
objectURL(n) == [scheme |-> "blob:", id |-> n]
convertFileSrc(path) == [scheme |-> "capacitor:", id |-> 0]
emptyUrl == [scheme |-> "", id |-> 0]

\* fileUrl && fileUrl.startsWith('blob:')
startsWithBlob(fileUrl) ==
    fileUrl # null /\ fileUrl # emptyUrl /\ fileUrl.scheme = "blob:"

\* The cleanup the load content effect returns, closing over this render's
\* fileUrl; no cleanup when the effect returned early.
noCleanup == [registered |-> FALSE, fileUrl |-> null]
Cleanup(fileUrl) == [registered |-> TRUE, fileUrl |-> fileUrl]

\* Running a cleanup: the URLs revoked after it.
runCleanup(cleanup, revoked) ==
    IF cleanup.registered /\ startsWithBlob(cleanup.fileUrl)
    THEN revoked \cup {cleanup.fileUrl}
    ELSE revoked

unmounted(m) ==
    [m EXCEPT !.mounted = FALSE, !.file = null, !.activeDriveConfig = null,
              !.fileUrl = null, !.content = null, !.cleanup = noCleanup,
              !.getDrives = FALSE]

\* loadContent() up to its await, for a text or an image file.
loadContent(file, config, mount) ==
    IF isText(file) \/ isImage(file)
    THEN {[file |-> file, drive |-> config, mount |-> mount]}
    ELSE {}

\* The load content effect of a render: the previous cleanup runs, then the
\* effect, which returns early without a drive configuration.
loadContentEffect(m, file, config) ==
    [m EXCEPT !.revoked = runCleanup(m.cleanup, m.revoked),
              !.cleanup = IF config = null THEN noCleanup ELSE Cleanup(m.fileUrl),
              !.loads = IF config = null THEN m.loads
                        ELSE m.loads \cup loadContent(file, config, m.mount)]

PreviewInit ==
    /\ isNativePlatform \in BOOLEAN
    /\ storage = null
    /\ calls = <<>>
    /\ proxyIdle
    /\ serviceIdle
    /\ appIdle

\* FileItem onClick on a file with no selection: setPreviewFile(file), and
\* the mount of the modal with its drive configuration effect.
onPreview ==
    /\ ~modal.mounted
    /\ modal.mount < MaxOpens
    /\ \E file \in PreviewFiles, drive \in PreviewDrives :
          /\ previewFile' = file
          /\ modal' = [modal EXCEPT !.mounted = TRUE, !.mount = @ + 1, !.file = file,
                                    !.drive = drive.id, !.getDrives = TRUE]
    /\ UNCHANGED <<currentPath, activeDrive, drives, files, selectedPaths, clipboard,
                   uploading, isAddDriveOpen, isIslandExpanded, localStorage, timers,
                   isLongPress, pending, backend, dialog, started, lastDrop, keydown, storage,
                   calls, proxyVars, serviceVars, isNativePlatform>>

\* FileService.getDrives() resolved: setActiveDriveConfig(config), and the
\* load content effect of the render that follows.
setActiveDriveConfig ==
    /\ modal.mounted /\ modal.getDrives
    /\ \E config \in PreviewDrives \cup {null} :
          /\ config # null => config.id = modal.drive
          /\ modal' = IF config = modal.activeDriveConfig
                      THEN [modal EXCEPT !.getDrives = FALSE]
                      ELSE loadContentEffect(
                               [modal EXCEPT !.getDrives = FALSE,
                                             !.activeDriveConfig = config],
                               modal.file, config)
    /\ UNCHANGED <<currentPath, activeDrive, drives, files, selectedPaths, clipboard,
                   uploading, previewFile, isAddDriveOpen, isIslandExpanded, localStorage,
                   timers, isLongPress, pending, backend, dialog, started, lastDrop, keydown,
                   storage, calls, proxyVars, serviceVars, isNativePlatform>>

\* loadContent after its await resolved: the text is set, or the URL of a
\* local file, or the object URL created for the bytes of a WebDAV file.
\* The setters do nothing once the modal that made the call is gone.
loadContentResolved ==
    /\ \E load \in modal.loads :
          LET here == modal.mounted /\ modal.mount = load.mount
              made == isImage(load.file) /\ load.drive.type # "local"
              url == IF made THEN objectURL(Cardinality(modal.created) + 1)
                     ELSE IF isNativePlatform THEN convertFileSrc(load.file.path)
                     ELSE emptyUrl
          IN  modal' = [modal EXCEPT
                  !.loads = @ \ {load},
                  !.created = IF made THEN @ \cup {[url |-> url, file |-> load.file,
                                                    mount |-> load.mount]}
                              ELSE @,
                  !.fileUrl = IF here /\ isImage(load.file) THEN url ELSE @,
                  !.content = IF here /\ isText(load.file) THEN load.file.name ELSE @]
    /\ UNCHANGED <<currentPath, activeDrive, drives, files, selectedPaths, clipboard,
                   uploading, previewFile, isAddDriveOpen, isIslandExpanded, localStorage,
                   timers, isLongPress, pending, backend, dialog, started, lastDrop, keydown,
                   storage, calls, proxyVars, serviceVars, isNativePlatform>>

\* loadContent after its await rejected: the error text.
loadContentRejected ==
    /\ \E load \in modal.loads :
          /\ load.drive.type # "local"
          /\ modal' = [modal EXCEPT
                  !.loads = @ \ {load},
                  !.content = IF modal.mounted /\ modal.mount = load.mount
                              THEN "Error loading preview" ELSE @]
    /\ UNCHANGED <<currentPath, activeDrive, drives, files, selectedPaths, clipboard,
                   uploading, previewFile, isAddDriveOpen, isIslandExpanded, localStorage,
                   timers, isLongPress, pending, backend, dialog, started, lastDrop, keydown,
                   storage, calls, proxyVars, serviceVars, isNativePlatform>>

\* The modal rendered with another file: file.path is a dependency of the
\* load content effect, which runs again.
fileChanges ==
    /\ modal.mounted
    /\ modal.mount < MaxOpens
    /\ \E file \in PreviewFiles \ {modal.file} :
          /\ previewFile' = file
          /\ modal' = loadContentEffect([modal EXCEPT !.file = file, !.mount = @ + 1],
                                        file, modal.activeDriveConfig)
    /\ UNCHANGED <<currentPath, activeDrive, drives, files, selectedPaths, clipboard,
                   uploading, isAddDriveOpen, isIslandExpanded, localStorage, timers,
                   isLongPress, pending, backend, dialog, started, lastDrop, keydown, storage,
                   calls, proxyVars, serviceVars, isNativePlatform>>

\* onClose (the close button, the backdrop, Escape): setPreviewFile(null),
\* and the unmount of the modal, which runs the cleanup.
onClose ==
    /\ modal.mounted
    /\ previewFile' = null
    /\ modal' = unmounted([modal EXCEPT !.revoked = runCleanup(modal.cleanup, @)])
    /\ UNCHANGED <<currentPath, activeDrive, drives, files, selectedPaths, clipboard,
                   uploading, isAddDriveOpen, isIslandExpanded, localStorage, timers,
                   isLongPress, pending, backend, dialog, started, lastDrop, keydown, storage,
                   calls, proxyVars, serviceVars, isNativePlatform>>

PreviewNext ==
    \/ onPreview
    \/ setActiveDriveConfig
    \/ loadContentResolved
    \/ loadContentRejected
    \/ fileChanges
    \/ onClose

PreviewSpec == PreviewInit /\ [][PreviewNext]_vars

\* C28: every object URL created for a preview that is gone (the modal
\* closed, or showing another file and no longer this URL) has been
\* revoked.
C28_ObjectUrlsRevoked ==
    \A made \in modal.created :
        (\/ ~modal.mounted
         \/ modal.mount # made.mount /\ modal.fileUrl # made.url)
            => made.url \in modal.revoked


\* C29: an Escape press closes exactly one layer, the first open one in the
\* order preview, add-drive dialog, expanded island, non-empty selection,
\* and leaves the layers below it as they were; with no layer open it changes
\* nothing.
C29_EscapeOneLayer ==
    [][keydown'.key = "Escape" =>
          /\ previewFile # null =>
                /\ previewFile' = null
                /\ UNCHANGED <<isAddDriveOpen, isIslandExpanded, selectedPaths>>
          /\ previewFile = null /\ isAddDriveOpen =>
                /\ ~isAddDriveOpen'
                /\ UNCHANGED <<previewFile, isIslandExpanded, selectedPaths>>
          /\ previewFile = null /\ ~isAddDriveOpen /\ isIslandExpanded =>
                /\ ~isIslandExpanded'
                /\ UNCHANGED <<previewFile, isAddDriveOpen, selectedPaths>>
          /\ previewFile = null /\ ~isAddDriveOpen /\ ~isIslandExpanded =>
                /\ selectedPaths' = {}
                /\ UNCHANGED <<previewFile, isAddDriveOpen, isIslandExpanded>>
          /\ UNCHANGED <<currentPath, activeDrive, drives, files, clipboard, uploading,
                         localStorage, timers, isLongPress, pending, backend, storage>>]_vars

\* Escape arrived with the add-drive dialog over an expanded island and a
\* selection: the dialog is closed, the island and the selection remain.
C29_Witness ==
    /\ keydown = [key |-> "Escape", previewFile |-> FALSE, isAddDriveOpen |-> TRUE,
                  isIslandExpanded |-> TRUE, selectedPaths |-> TRUE]
    /\ ~isAddDriveOpen
    /\ isIslandExpanded
    /\ selectedPaths # {}


\* C30: when the 300 ms timer of a press on a displayed item fires, the item
\* changes between selected and not selected and is marked as long-pressed;
\* a click on the item or on its checkbox while it is so marked neither
\* changes its selection nor navigates into it nor previews it; releasing
\* or leaving the item before the timer fires changes no selection, and a
\* click with no item marked toggles an item when a selection exists and
\* otherwise navigates into a folder or previews a file.
C30_LongPressOnce ==
    [][/\ timerFires =>
             \A t \in timers \ timers' :
                 t.path \in pathsOf(files) =>
                     /\ (t.path \in selectedPaths') # (t.path \in selectedPaths)
                     /\ t.path \in isLongPress'
       /\ onClick \/ onClickCheckbox =>
             \A path \in isLongPress :
                 /\ (path \in selectedPaths') = (path \in selectedPaths)
                 /\ currentPath' = path => currentPath = path
                 /\ previewFile' # null /\ previewFile'.path = path => previewFile' = previewFile
       /\ endPress => selectedPaths' = selectedPaths
       /\ onClick /\ isLongPress = {} =>
             IF selectedPaths # {}
             THEN /\ \E file \in files : selectedPaths' = toggleSelection(selectedPaths, file.path)
                  /\ UNCHANGED <<currentPath, previewFile>>
             ELSE \/ \E file \in files :
                        file.isDirectory /\ currentPath' = file.path /\ previewFile' = previewFile
                  \/ \E file \in files :
                        ~file.isDirectory /\ previewFile' = file /\ currentPath' = currentPath]_vars

====
